---------------------------- MODULE Spec2Model ----------------------------
(***************************************************************************)
(* Model of the model-performance evaluation pipeline of                   *)
(* neural_data_analysis/analysis/model_evaluation.py:                      *)
(*   reshape_into_2d, evaluate_metric, evaluate_model_performance,         *)
(*   append_model_scores.                                                  *)
(*                                                                         *)
(* A numpy array is a record [shape, data]: its shape tuple and its        *)
(* elements in row-major order.  A score is an exact real number in the    *)
(* canonical form <<"rat", n, d>> (n/d in lowest terms, d > 0),            *)
(* <<"sqrt", n, d>> (sign(n) * sqrt(|n|/d), irrational) or                 *)
(* <<"nan", 0, 0>>.  A call's outcome is [st |-> "ok", val |-> value] or   *)
(* [st |-> "raise", val |-> exception].                                    *)
(***************************************************************************)
EXTENDS Integers, Sequences, FiniteSets, TLC

VARIABLES
    ground_truth,   \* argument of the function call under evaluation
    predictions,    \* argument of the function call under evaluation
    metric,         \* argument: the sequence of requested metric names
    by_feature,     \* argument: per-feature (TRUE) or per-sample (FALSE)
    ret,            \* the last function call: [fn, name, out]
    df,             \* the results table: [index, cols]
    call            \* the last table operation: [fn, args, before, out]

vars == <<ground_truth, predictions, metric, by_feature, ret, df, call>>

---------------------------------------------------------------------------
(* Bounds of the model *)

\* the largest number of elements of an input array
MaxCells == 4
\* the largest number of dimensions of an input array
MaxDim == 3
\* the largest number of names in a metrics sequence
MaxMetrics == 2
\* the largest number of rows of the results table
MaxRows == 2
\* the largest number of rows of a table that is averaged across folds
MaxFoldRows == 3
\* the largest number of calls made one after the other on one table
MaxCalls == 3
\* the largest number of calls of append_model_scores on one table
MaxAppends == 2
\* the largest number of names in an embedder list
MaxEmbedders == 3
\* the largest number of calls made with one metrics object
MaxRuns == 2

\* the values an array element takes: binary class labels
Labels == {0, 1}

---------------------------------------------------------------------------
(* Arithmetic helpers *)

Abs(x) == IF x < 0 THEN -x ELSE x

Sign(x) == IF x < 0 THEN -1 ELSE IF x > 0 THEN 1 ELSE 0

RECURSIVE GCD(_, _)
GCD(a, b) == IF b = 0 THEN a ELSE GCD(b, a % b)

RECURSIVE SumSeq(_)
SumSeq(s) == IF s = <<>> THEN 0 ELSE Head(s) + SumSeq(Tail(s))

RECURSIVE ProdSeq(_)
ProdSeq(s) == IF s = <<>> THEN 1 ELSE Head(s) * ProdSeq(Tail(s))

IsSquare(n) == \E k \in 0..n : k * k = n

Isqrt(n) == CHOOSE k \in 0..n : k * k = n

SetMin(S) == CHOOSE x \in S : \A y \in S : x <= y

RECURSIVE SortedSeq(_)
SortedSeq(S) ==
    IF S = {} THEN <<>> ELSE <<SetMin(S)>> \o SortedSeq(S \ {SetMin(S)})

Range(s) == {s[i] : i \in DOMAIN s}

\* the number of positions at which x holds a and y holds b
CountPairs(x, y, a, b) ==
    Cardinality({i \in DOMAIN x : i \in DOMAIN y /\ x[i] = a /\ y[i] = b})

\* the number of positions at which x holds a
CountOf(x, a) == Cardinality({i \in DOMAIN x : x[i] = a})

---------------------------------------------------------------------------
(* Scores: exact real numbers *)

NaN == <<"nan", 0, 0>>

\* n/d, d > 0, in lowest terms
Rat(n, d) == LET g == GCD(Abs(n), d) IN <<"rat", n \div g, d \div g>>

\* sgn * sqrt(n/d), n >= 0, d > 0
SqrtRat(sgn, n, d) ==
    LET g == GCD(n, d)
        p == n \div g
        q == d \div g
    IN  IF IsSquare(p) /\ IsSquare(q)
        THEN Rat(sgn * Isqrt(p), Isqrt(q))
        ELSE <<"sqrt", sgn * p, q>>

\* the sum (in lowest terms) and the mean of the fractions <<n, d>> of a
\* sequence
RECURSIVE FracSum(_)
FracSum(fs) ==
    IF fs = <<>> THEN <<0, 1>>
    ELSE LET r == FracSum(Tail(fs))
             h == Head(fs)
             n == h[1] * r[2] + r[1] * h[2]
             g == GCD(Abs(n), h[2] * r[2])
         IN  <<n \div g, (h[2] * r[2]) \div g>>

FracMean(fs) == LET s == FracSum(fs) IN Rat(s[1], s[2] * Len(fs))

---------------------------------------------------------------------------
(* Outcomes of a call *)

Ok(v) == [st |-> "ok", val |-> v]

Raise(e) == [st |-> "raise", val |-> e]

UnsupportedMetricError == "ValueError: Metric not supported."

ShapeError == "ValueError: Array must be 1d or 2d."

LibraryError == "ValueError: raised by the library routine"

IndexError == "IndexError"

KeyError == "KeyError"

---------------------------------------------------------------------------
(* numpy arrays *)

ndim(arr) == Len(arr.shape)

\* np.array of a list / of a list of n lists of m elements
Vector(data) == [shape |-> <<Len(data)>>, data |-> data]

Matrix(n, m, data) == [shape |-> <<n, m>>, data |-> data]

\* arr[:, f] of a 2-d array, f counted from 1
Column(arr, f) ==
    [i \in 1..arr.shape[1] |-> arr.data[(i - 1) * arr.shape[2] + f]]

\* arr[i] of a 2-d array, i counted from 1
Row(arr, i) ==
    [j \in 1..arr.shape[2] |-> arr.data[(i - 1) * arr.shape[2] + j]]

\* a 1-d input becomes (n, 1); more than 2 dimensions are rejected;
\* anything else (2-d, and also 0-d) is returned as it is
\* the 1-d input laid out as one row: reshape(1, -1)
reshape_into_row(arr) ==
    IF ndim(arr) = 1
    THEN Ok([shape |-> <<1, arr.shape[1]>>, data |-> arr.data])
    ELSE IF ndim(arr) > 2
         THEN Raise(ShapeError)
         ELSE Ok(arr)

reshape_into_2d(arr) ==
    IF ndim(arr) = 1
    THEN Ok([shape |-> <<arr.shape[1], 1>>, data |-> arr.data])
    ELSE IF ndim(arr) > 2
         THEN Raise(ShapeError)
         ELSE Ok(arr)

---------------------------------------------------------------------------
(* The library routines evaluate_metric calls, on 1-d vectors x (ground    *)
(* truth) and y (predictions) given as sequences of integers               *)

Dot(x, y) == SumSeq([i \in DOMAIN x |-> x[i] * y[i]])

SqErr(x, y) == SumSeq([i \in DOMAIN x |-> (x[i] - y[i]) * (x[i] - y[i])])

\* n * sum(x^2) - sum(x)^2: n^2 times the variance, 0 iff x is constant
NVar(x) == Len(x) * Dot(x, x) - SumSeq(x) * SumSeq(x)

\* the correlation with nan for a single point in place of the error
pearsonr_single_point(x, y) ==
    IF Len(x) # Len(y) THEN Raise(LibraryError)
    ELSE IF Len(x) < 2 \/ NVar(x) = 0 \/ NVar(y) = 0 THEN Ok(NaN)
    ELSE IF Len(x) = 2
         THEN Ok(Rat(Sign(x[2] - x[1]) * Sign(y[2] - y[1]), 1))
    ELSE LET cov == Len(x) * Dot(x, y) - SumSeq(x) * SumSeq(y)
         IN  Ok(SqrtRat(Sign(cov), cov * cov, NVar(x) * NVar(y)))

\* scipy.stats.pearsonr(x, y)[0]
pearsonr(x, y) ==
    IF Len(x) # Len(y) THEN Raise(LibraryError)
    ELSE IF Len(x) < 2 THEN Raise(LibraryError)
    ELSE IF NVar(x) = 0 \/ NVar(y) = 0 THEN Ok(NaN)
    ELSE IF Len(x) = 2
         THEN Ok(Rat(Sign(x[2] - x[1]) * Sign(y[2] - y[1]), 1))
    ELSE LET cov == Len(x) * Dot(x, y) - SumSeq(x) * SumSeq(y)
         IN  Ok(SqrtRat(Sign(cov), cov * cov, NVar(x) * NVar(y)))

\* sklearn.metrics.r2_score(y_true, y_pred)
r2_score(x, y) ==
    IF Len(x) # Len(y) THEN Raise(LibraryError)
    ELSE IF Len(x) < 2 THEN Ok(NaN)
    ELSE IF NVar(x) = 0
         THEN Ok(IF SqErr(x, y) = 0 THEN Rat(1, 1) ELSE Rat(0, 1))
    ELSE Ok(Rat(NVar(x) - Len(x) * SqErr(x, y), NVar(x)))

\* sklearn.metrics.mean_squared_error(y_true, y_pred)
mean_squared_error(x, y) ==
    IF Len(x) # Len(y) THEN Raise(LibraryError)
    ELSE Ok(Rat(SqErr(x, y), Len(x)))

\* sklearn.metrics.pairwise.cosine_similarity(x.reshape(1, -1),
\* y.reshape(1, -1)).item(): a zero vector is left unnormalised
cosine_similarity(x, y) ==
    IF Len(x) # Len(y) THEN Raise(LibraryError)
    ELSE IF Dot(x, x) = 0 \/ Dot(y, y) = 0 THEN Ok(Rat(0, 1))
    ELSE Ok(SqrtRat(Sign(Dot(x, y)), Dot(x, y) * Dot(x, y),
                    Dot(x, x) * Dot(y, y)))

\* np.mean(x == y): vectors of equal length are compared elementwise, a
\* vector of length 1 is broadcast against the other; for lengths that do
\* not broadcast numpy >= 1.25 raises and older versions compare to the
\* scalar False (strict tells which numpy is installed)
accuracy(x, y, strict) ==
    IF Len(x) = Len(y)
    THEN Ok(Rat(Cardinality({i \in DOMAIN x : x[i] = y[i]}), Len(x)))
    ELSE IF Len(x) = 1
         THEN Ok(Rat(CountOf(y, x[1]), Len(y)))
    ELSE IF Len(y) = 1
         THEN Ok(Rat(CountOf(x, y[1]), Len(x)))
    ELSE IF strict THEN Raise(LibraryError) ELSE Ok(Rat(0, 1))

\* sklearn.metrics.balanced_accuracy_score(y_true, y_pred): the mean, over
\* the classes present in y_true, of the recall of the class
balanced_accuracy_score(x, y) ==
    IF Len(x) # Len(y) THEN Raise(LibraryError)
    ELSE LET classes == SortedSeq(Range(x))
             recall == [k \in DOMAIN classes |->
                          <<CountPairs(x, y, classes[k], classes[k]),
                            CountOf(x, classes[k])>>]
         IN  Ok(FracMean(recall))

---------------------------------------------------------------------------
(* evaluate_metric *)

MetricAliases ==
    {"correlation", "corr", "r-squared", "r2", "mean-squared-error", "mse",
     "cosine_similarity", "cos_sim", "accuracy", "acc",
     "balanced_accuracy", "balanced_acc"}

MultiOutputMetrics == {"precision", "recall", "fscore", "support"}

\* the if-chain with the long names only
metric_score_long_names(gt, pred, name, strict) ==
    IF name = "correlation" THEN pearsonr(gt, pred)
    ELSE IF name = "r-squared" THEN r2_score(gt, pred)
    ELSE IF name = "mean-squared-error" THEN mean_squared_error(gt, pred)
    ELSE IF name = "cosine_similarity" THEN cosine_similarity(gt, pred)
    ELSE IF name = "accuracy" THEN accuracy(gt, pred, strict)
    ELSE IF name = "balanced_accuracy" THEN balanced_accuracy_score(gt, pred)
    ELSE Raise(UnsupportedMetricError)

\* the branch of the if-chain a supported name selects
metric_score(gt, pred, name, strict) ==
    IF name = "correlation" \/ name = "corr" THEN pearsonr(gt, pred)
    ELSE IF name = "r-squared" \/ name = "r2" THEN r2_score(gt, pred)
    ELSE IF name = "mean-squared-error" \/ name = "mse"
         THEN mean_squared_error(gt, pred)
    ELSE IF name = "cosine_similarity" \/ name = "cos_sim"
         THEN cosine_similarity(gt, pred)
    ELSE IF name = "accuracy" \/ name = "acc"
         THEN accuracy(gt, pred, strict)
    ELSE balanced_accuracy_score(gt, pred)

\* an unknown name falls into the last branch of the if-chain
evaluate_metric_no_else(gt, pred, name, strict) ==
    metric_score(gt, pred, name, strict)

evaluate_metric(gt, pred, name, strict) ==
    IF name \in MetricAliases
    THEN metric_score(gt, pred, name, strict)
    ELSE Raise(UnsupportedMetricError)

---------------------------------------------------------------------------
(* sklearn.metrics.precision_recall_fscore_support(y_true, y_pred) on the  *)
(* two arrays as evaluate_model_performance passes them.  A matrix of more *)
(* than one column is a multilabel indicator with one label per column, a  *)
(* matrix of one column is a vector of class labels with one label per     *)
(* class present in y_true or y_pred.                                      *)

CountNonzero(x) == Cardinality({i \in DOMAIN x : x[i] # 0})

\* <<tp_sum, pred_sum, true_sum>> of column f of a multilabel indicator
IndicatorCounts(g, p, f) ==
    <<Cardinality({i \in 1..g.shape[1] :
                      Column(g, f)[i] # 0 /\ Column(p, f)[i] # 0}),
      CountNonzero(Column(p, f)),
      CountNonzero(Column(g, f))>>

\* <<tp_sum, pred_sum, true_sum>> of class c of two label vectors
ClassCounts(x, y, c) == <<CountPairs(x, y, c, c), CountOf(y, c), CountOf(x, c)>>

\* the four result vectors from the per-label counts; a ratio with a zero
\* denominator is 0 (zero_division="warn")
prfs_result(counts) ==
    [precision |-> Vector([k \in DOMAIN counts |->
                       IF counts[k][2] = 0 THEN Rat(0, 1)
                       ELSE Rat(counts[k][1], counts[k][2])]),
     recall    |-> Vector([k \in DOMAIN counts |->
                       IF counts[k][3] = 0 THEN Rat(0, 1)
                       ELSE Rat(counts[k][1], counts[k][3])]),
     fscore    |-> Vector([k \in DOMAIN counts |->
                       IF counts[k][2] + counts[k][3] = 0 THEN Rat(0, 1)
                       ELSE Rat(2 * counts[k][1],
                                counts[k][2] + counts[k][3])]),
     support   |-> Vector([k \in DOMAIN counts |-> Rat(counts[k][3], 1)])]

IsIndicator(a) == Cardinality(Range(a.data)) < 3

precision_recall_fscore_support(g, p) ==
    IF ndim(g) # 2 \/ ndim(p) # 2 THEN Raise(LibraryError)
    ELSE IF g.shape[1] # p.shape[1] THEN Raise(LibraryError)
    ELSE IF (g.shape[2] > 1) # (p.shape[2] > 1) THEN Raise(LibraryError)
    ELSE IF g.shape[2] > 1
         THEN IF ~IsIndicator(g) \/ ~IsIndicator(p) \/ g.shape[2] # p.shape[2]
              THEN Raise(LibraryError)
              ELSE Ok(prfs_result([f \in 1..g.shape[2] |->
                                      IndicatorCounts(g, p, f)]))
    ELSE LET classes == SortedSeq(Range(g.data) \cup Range(p.data))
         IN  Ok(prfs_result([k \in DOMAIN classes |->
                                ClassCounts(g.data, p.data, classes[k])]))

---------------------------------------------------------------------------
(* evaluate_model_performance *)

\* one pass of the loop over features: the score of feature f
feature_score(g, p, name, strict, f) ==
    IF ndim(p) # 2 \/ f > p.shape[2]
    THEN Raise(IndexError)
    ELSE evaluate_metric(Column(g, f), Column(p, f), name, strict)

\* one pass of the loop over samples: the score of sample i
sample_score(g, p, name, strict, i) ==
    IF ndim(p) # 2 \/ i > p.shape[1]
    THEN Raise(IndexError)
    ELSE evaluate_metric(Row(g, i), Row(p, i), name, strict)

\* the inner loop stopping one pass early
loop_range_short(g, bf) == (IF bf THEN g.shape[2] ELSE g.shape[1]) - 1

\* the number of passes of the inner loop
loop_range(g, bf) == IF bf THEN g.shape[2] ELSE g.shape[1]

RECURSIVE metric_score_list(_, _, _, _, _, _, _)

\* the rest of pass k of the inner loop, s the outcome of its
\* evaluate_metric call: metric_score.append(score), or the exception
append_score(g, p, name, bf, strict, k, acc, s) ==
    IF s.st = "raise" THEN s
    ELSE metric_score_list(g, p, name, bf, strict, k + 1, Append(acc, s.val))

\* the inner loop from pass k on; acc is metric_score, the list of scores
metric_score_list(g, p, name, bf, strict, k, acc) ==
    IF k > loop_range(g, bf) THEN Ok(acc)
    ELSE append_score(g, p, name, bf, strict, k, acc,
                      IF bf THEN feature_score(g, p, name, strict, k)
                            ELSE sample_score(g, p, name, strict, k))

\* the four joint results returned alone
return_multi_output(scores, r) == r

\* the scores mapping after the four joint results are stored in it
store_multi_output(scores, r) == r @@ scores

\* the scores mapping after scores[name] = np.array(metric_score)
store_metric(scores, name, vec) == (name :> Vector(vec)) @@ scores

RECURSIVE metric_loop(_, _, _, _, _, _, _)

\* the multi-output branch, r the outcome of the library call: the four
\* results are stored and the loop is left (break)
multi_output_branch(scores, r) ==
    IF r.st = "raise" THEN r ELSE Ok(store_multi_output(scores, r.val))

\* the end of pass k of the loop over the metric names, v the outcome of
\* the inner loop
single_score_branch(g, p, names, bf, strict, k, scores, v) ==
    IF v.st = "raise" THEN v
    ELSE metric_loop(g, p, names, bf, strict, k + 1,
                     store_metric(scores, names[k], v.val))

\* the loop over the metric names from position k on
metric_loop(g, p, names, bf, strict, k, scores) ==
    IF k > Len(names) THEN Ok(scores)
    ELSE IF names[k] \in MultiOutputMetrics
         THEN multi_output_branch(scores,
                                  precision_recall_fscore_support(g, p))
    ELSE IF ndim(g) # 2 THEN Raise(IndexError)
    ELSE single_score_branch(g, p, names, bf, strict, k, scores,
             metric_score_list(g, p, names[k], bf, strict, 1, <<>>))

\* the body after the two reshape_into_2d calls, g and p their outcomes
evaluate_reshaped(g, p, names, bf, strict) ==
    IF g.st = "raise" THEN g
    ELSE IF p.st = "raise" THEN p
    ELSE metric_loop(g.val, p.val, names, bf, strict, 1, <<>>)

evaluate_model_performance(gt, pred, names, bf, strict) ==
    evaluate_reshaped(reshape_into_2d(gt), reshape_into_2d(pred),
                      names, bf, strict)

---------------------------------------------------------------------------
(* The inputs of the function calls *)

\* the shapes of d dimensions with at most MaxCells elements
Shapes(d) == {s \in [1..d -> 1..MaxCells] : ProdSeq(s) <= MaxCells}

ArraysOfShape(s) ==
    {[shape |-> s, data |-> d] : d \in [1..ProdSeq(s) -> Labels]}

ZeroArray(s) == [shape |-> s, data |-> [i \in 1..ProdSeq(s) |-> 0]]

\* the arrays of 1 and 2 dimensions
Matrices == UNION {ArraysOfShape(s) : s \in Shapes(1) \cup Shapes(2)}

\* of every other number of dimensions, one array: only ndim of it is read
OtherArrays == {ZeroArray([i \in 1..d |-> 1]) : d \in {0} \cup 3..MaxDim}

Arrays == Matrices \cup OtherArrays

Hamming(a, b) == Cardinality({i \in DOMAIN a : a[i] # b[i]})

\* the predictions paired with a ground truth: of the same shape, equal to
\* it or wrong in one element; or, of any other shape, the zero array
\* paired with the zero ground truth
PredictionsFor(gt) ==
    {a \in Arrays : a.shape = gt.shape /\ Hamming(a.data, gt.data) <= 1}
    \cup {a \in Arrays : a.shape # gt.shape /\ gt = ZeroArray(gt.shape)
                         /\ a = ZeroArray(a.shape)}

\* the names a metrics sequence is made of: two single-score metrics, two
\* multi-output metrics and an unsupported name
MetricPool == {"mse", "accuracy", "precision", "support", "kendall"}

\* the names evaluate_metric is called with
MetricNames == MetricAliases \cup MultiOutputMetrics \cup {"kendall", "Corr", ""}

IsInjective(s) == \A i, j \in DOMAIN s : s[i] = s[j] => i = j

\* the sequences of at most MaxMetrics distinct names of a pool
SeqsOver(pool) ==
    UNION {{s \in [1..n -> pool] : IsInjective(s)} : n \in 0..MaxMetrics}

\* the metrics sequences: those over the pool, and every single name
MetricSeqs == SeqsOver(MetricPool) \cup {<<n>> : n \in MetricNames}

NoCall == [fn |-> "none", strict |-> FALSE, out |-> Ok(<<>>)]

EmptyTable == [index |-> <<>>, cols |-> <<>>]

---------------------------------------------------------------------------
(* The function calls: Init draws the arguments, an action applies the     *)
(* function to them once                                                   *)

InitPure ==
    /\ ground_truth \in Arrays
    /\ predictions \in PredictionsFor(ground_truth)
    /\ metric \in MetricSeqs
    /\ by_feature \in BOOLEAN
    /\ ret = NoCall
    /\ df = EmptyTable
    /\ call = NoCall

Do_reshape_into_2d ==
    /\ ret.fn = "none"
    /\ ret' = [fn |-> "reshape_into_2d", strict |-> FALSE,
               out |-> reshape_into_2d(ground_truth)]
    /\ UNCHANGED <<ground_truth, predictions, metric, by_feature, df, call>>

\* evaluate_metric is called on two 1-d vectors and one metric name
Do_evaluate_metric ==
    /\ ret.fn = "none"
    /\ ndim(ground_truth) = 1
    /\ ndim(predictions) = 1
    /\ Len(metric) = 1
    /\ \E strict \in BOOLEAN :
          ret' = [fn |-> "evaluate_metric", strict |-> strict,
                  out |-> evaluate_metric(ground_truth.data, predictions.data,
                                          metric[1], strict)]
    /\ UNCHANGED <<ground_truth, predictions, metric, by_feature, df, call>>

Do_evaluate_model_performance ==
    /\ ret.fn = "none"
    /\ \E strict \in BOOLEAN :
          ret' = [fn |-> "evaluate_model_performance", strict |-> strict,
                  out |-> evaluate_model_performance(ground_truth, predictions,
                                                     metric, by_feature, strict)]
    /\ UNCHANGED <<ground_truth, predictions, metric, by_feature, df, call>>

NextPure ==
    \/ Do_reshape_into_2d
    \/ Do_evaluate_metric
    \/ Do_evaluate_model_performance

SpecPure == InitPure /\ [][NextPure]_vars

---------------------------------------------------------------------------
(* Properties of the function calls (SpecPure) *)

\* a call of evaluate_model_performance has ended / has returned
EmpCalled == ret.fn = "evaluate_model_performance"

EmpReturned == EmpCalled /\ ret.out.st = "ok"

\* the arguments are arrays of 1 or 2 dimensions
Is1dOr2d == ndim(ground_truth) \in {1, 2} /\ ndim(predictions) \in {1, 2}

\* the arguments after normalization to 2-d
NormGt == reshape_into_2d(ground_truth).val

NormPred == reshape_into_2d(predictions).val

\* valid inputs: both n_samples x m_features after normalization
ValidInputs == Is1dOr2d /\ NormGt.shape = NormPred.shape

\* the length by_feature asks for: m_features, or n_samples
ExpectedLength == IF by_feature THEN NormGt.shape[2] ELSE NormGt.shape[1]

\* the position of the first multi-output name of the metrics sequence
FirstMultiOutput ==
    SetMin({k \in DOMAIN metric : metric[k] \in MultiOutputMetrics})

HasMultiOutput == \E k \in DOMAIN metric : metric[k] \in MultiOutputMetrics

C4_OnlyTheFourKeys ==
    (EmpReturned /\ HasMultiOutput) =>
        DOMAIN ret.out.val = MultiOutputMetrics

\* C4 (amended): when the metrics sequence holds a multi-output name, the
\* returned mapping has exactly the keys precision, recall, fscore and
\* support and the names requested before the first multi-output name; no
\* name after it is a key.
C4_TheFourKeysAndTheEarlierMetrics ==
    (EmpReturned /\ HasMultiOutput) =>
        DOMAIN ret.out.val =
            MultiOutputMetrics
            \cup {metric[k] : k \in 1..(FirstMultiOutput - 1)}

C4_Witness ==
    /\ EmpReturned
    /\ metric = <<"mse", "precision">>
    /\ DOMAIN ret.out.val = MultiOutputMetrics \cup {"mse"}

\* C5: whenever evaluate_model_performance returns, every requested metric
\* name is a key of the returned mapping.
C5_EveryRequestedMetricIsAKey ==
    EmpReturned => \A m \in Range(metric) : m \in DOMAIN ret.out.val

\* C6: for every name that is not an accepted alias, evaluate_metric
\* raises the unsupported-metric error and returns no score.
C6_UnsupportedNameRaises ==
    (ret.fn = "evaluate_metric" /\ metric[1] \notin MetricAliases) =>
        ret.out = Raise(UnsupportedMetricError)

C6_Witness ==
    /\ ret.fn = "evaluate_metric"
    /\ metric = <<"kendall">>
    /\ Len(ground_truth.data) = 2
    /\ ret.out = Raise(UnsupportedMetricError)

\* the fixed metric vocabulary
Vocabulary == MetricAliases \cup MultiOutputMetrics

\* C7: whenever the metrics sequence holds a name outside the vocabulary,
\* evaluate_model_performance (here on valid inputs) raises the
\* unsupported-metric error, wherever the name stands.
C7_NameOutsideVocabularyRaises ==
    (EmpCalled /\ ValidInputs
        /\ \E m \in Range(metric) : m \notin Vocabulary) =>
        ret.out = Raise(UnsupportedMetricError)

\* C8: for ground truth and predictions whose shapes differ after
\* normalization to 2-d, evaluate_model_performance raises.
C8_ShapeMismatchRaises ==
    (EmpCalled /\ Is1dOr2d /\ NormGt.shape # NormPred.shape) =>
        ret.out.st = "raise"

C10_TwoDimensionsOrShapeError ==
    ret.fn = "reshape_into_2d" =>
        IF ndim(ground_truth) = 2
        THEN ret.out = Ok(ground_truth)
        ELSE IF ndim(ground_truth) = 1
             THEN ret.out = Ok([shape |-> <<ground_truth.shape[1], 1>>,
                                data |-> ground_truth.data])
             ELSE ret.out = Raise(ShapeError)

---------------------------------------------------------------------------
(* The results table: a pandas DataFrame [index, cols], index the row      *)
(* labels in positional order, cols a mapping from each column name to the *)
(* list of its cells in positional order.  A column name is the sequence   *)
(* of the parts it is formatted from: <<"mse">> is "mse" and               *)
(* <<"mse", "_shuffled">> is f"{metric}_shuffled" for the metric "mse".    *)

ColumnName(text) == <<text>>

\* f"{name}{suffix}"
Suffixed(name, suffix) == Append(name, suffix)

nrows(d) == Len(d.index)

\* df[col][i]: the cell of column col in the row whose LABEL is i
series_getitem(d, col, i) ==
    IF col \notin DOMAIN d.cols THEN Raise(KeyError)
    ELSE IF \E k \in 1..nrows(d) : d.index[k] = i
         THEN Ok(d.cols[col][CHOOSE k \in 1..nrows(d) : d.index[k] = i])
         ELSE Raise(KeyError)

\* the table rebuilt from the one column
set_column_alone(d, name, values) ==
    [index |-> d.index, cols |-> (name :> values)]

\* df[name] = values: the column is set by position
set_column(d, name, values) ==
    [index |-> d.index, cols |-> (name :> values) @@ d.cols]

\* a metrics argument: a list or a tuple of names (items), or one bare
\* string (text), whose items are then its characters
ListArg(names) ==
    [is_str |-> FALSE, is_list |-> TRUE, text |-> "", items |-> names]

StrArg(text, chars) ==
    [is_str |-> TRUE, is_list |-> FALSE, text |-> text, items |-> chars]

\* a tuple of names: iterated like a list, but it has no append
TupleArg(names) ==
    [is_str |-> FALSE, is_list |-> FALSE, text |-> "", items |-> names]

\* if isinstance(metrics, str): metrics = tuple(metrics)
metrics_tuple(metrics) == metrics.items

\* a metric_col_names argument: None, or a mapping
NoColNames == [given |-> FALSE, map |-> <<>>]

ColNames(map) == [given |-> TRUE, map |-> map]

RECURSIVE row_scores(_, _, _, _, _, _, _, _)

\* the end of pass i of the loop over the rows, r the outcome of its
\* evaluate_model_performance call: scores.append(row_score)
append_row_score(d, names, bf, gt_col, pred_col, strict, i, scores, r) ==
    IF r.st = "raise" THEN r
    ELSE row_scores(d, names, bf, gt_col, pred_col, strict, i + 1,
                    Append(scores, r.val))

\* pass i of the loop over the rows, g and p the outcomes of df[gt_col][i]
\* and df[pred_col][i]
row_score(d, names, bf, gt_col, pred_col, strict, i, scores, g, p) ==
    IF g.st = "raise" THEN g
    ELSE IF p.st = "raise" THEN p
    ELSE append_row_score(d, names, bf, gt_col, pred_col, strict, i, scores,
             evaluate_model_performance(g.val, p.val, names, bf, strict))

\* the loop over the rows, from i (counted from 0) on
row_scores(d, names, bf, gt_col, pred_col, strict, i, scores) ==
    IF i >= nrows(d) THEN Ok(scores)
    ELSE row_score(d, names, bf, gt_col, pred_col, strict, i, scores,
                   series_getitem(d, gt_col, i),
                   series_getitem(d, pred_col, i))

\* the override ignored
output_column_plain(col_names, name) == ColumnName(name)

\* the name of the column a metric is written to
output_column(col_names, name) ==
    IF col_names.given THEN col_names.map[name] ELSE ColumnName(name)

\* the loop with a renamed column filled from the scores of the first
\* metric
RECURSIVE write_columns_renamed_from_first(_, _, _, _, _)
write_columns_renamed_from_first(d, names, col_names, scores, k) ==
    IF k > Len(names) THEN [df |-> d, out |-> Ok("None")]
    ELSE IF \E j \in DOMAIN scores : names[k] \notin DOMAIN scores[j]
         THEN [df |-> d, out |-> Raise(KeyError)]
    ELSE IF col_names.given /\ names[k] \notin DOMAIN col_names.map
         THEN [df |-> d, out |-> Raise(KeyError)]
    ELSE write_columns_renamed_from_first(
             set_column(d, output_column(col_names, names[k]),
                        [j \in DOMAIN scores |->
                            scores[j][names[IF col_names.given THEN 1 ELSE k]]]),
             names, col_names, scores, k + 1)

\* the loop that appends the scores to the table, from metric k on
RECURSIVE write_columns(_, _, _, _, _)
write_columns(d, names, col_names, scores, k) ==
    IF k > Len(names) THEN [df |-> d, out |-> Ok("None")]
    ELSE IF \E j \in DOMAIN scores : names[k] \notin DOMAIN scores[j]
         THEN [df |-> d, out |-> Raise(KeyError)]
    ELSE IF col_names.given /\ names[k] \notin DOMAIN col_names.map
         THEN [df |-> d, out |-> Raise(KeyError)]
    ELSE write_columns(
             set_column(d, output_column(col_names, names[k]),
                        [j \in DOMAIN scores |-> scores[j][names[k]]]),
             names, col_names, scores, k + 1)

\* the body after the loop over the rows, scores its outcome
append_columns(d, names, col_names, scores) ==
    IF scores.st = "raise"
    THEN [df |-> d, out |-> scores]
    ELSE write_columns(d, names, col_names, scores.val, 1)

append_model_scores(d, metrics, bf, gt_col, pred_col, col_names, strict) ==
    append_columns(d, metrics_tuple(metrics), col_names,
                   row_scores(d, metrics_tuple(metrics), bf, gt_col, pred_col,
                              strict, 0, <<>>))

---------------------------------------------------------------------------
(* The tables and the arguments of the table operations *)

\* the <<ground truth, predictions>> cells a row is drawn from: a pair of
\* 1-d vectors, a pair of matrices, and a pair of different shapes
RowPool ==
    {<<Vector(<<0, 1>>), Vector(<<0, 1>>)>>,
     <<Matrix(2, 2, <<0, 1, 1, 0>>), Matrix(2, 2, <<0, 1, 1, 1>>)>>,
     <<Matrix(2, 1, <<0, 1>>), Matrix(2, 2, <<1, 0, 0, 0>>)>>}

\* the row labels of a table of n rows: any n distinct labels of 0..n, in
\* any order (the range index 0..n-1, a re-sorted or a filtered table)
IndexSet(n) == {s \in [1..n -> 0..n] : IsInjective(s)}

Tables ==
    UNION {{[index |-> ix,
             cols |-> (ColumnName("ground_truth") :>
                           [k \in 1..n |-> rows[k][1]])
                      @@ (ColumnName("predictions") :>
                           [k \in 1..n |-> rows[k][2]])] :
              ix \in IndexSet(n), rows \in [1..n -> RowPool]} :
           n \in 0..MaxRows}

TableMetricPool == {"mse", "precision", "kendall"}

MetricsArgs ==
    {ListArg(s) : s \in SeqsOver(TableMetricPool)}
    \cup {StrArg("mse", <<"m", "s", "e">>)}

\* the metric_col_names arguments for a metrics tuple: None, a mapping of
\* every name, a mapping of every name but the first
ColNamesArgs(names) ==
    {NoColNames,
     ColNames([m \in Range(names) |->
                  Suffixed(ColumnName(m), "_shuffled")]),
     ColNames([m \in Range(names) \ {names[k] : k \in DOMAIN names \cap {1}}
                  |-> Suffixed(ColumnName(m), "_shuffled")])}

---------------------------------------------------------------------------
(* The table operations: Init draws the table, an action applies one       *)
(* operation to it                                                         *)

Init ==
    /\ df \in Tables
    /\ call = NoCall
    /\ ground_truth = ZeroArray(<<1>>)
    /\ predictions = ZeroArray(<<1>>)
    /\ metric = <<>>
    /\ by_feature = TRUE
    /\ ret = NoCall

Do_append_model_scores ==
    /\ call.fn = "none"
    /\ \E metrics \in MetricsArgs, bf \in BOOLEAN, strict \in BOOLEAN :
         \E col_names \in ColNamesArgs(metrics_tuple(metrics)) :
            \E r \in {append_model_scores(df, metrics, bf,
                                           ColumnName("ground_truth"),
                                           ColumnName("predictions"),
                                           col_names, strict)} :
                /\ df' = r.df
                /\ call' = [fn |-> "append_model_scores", metrics |-> metrics,
                            by_feature |-> bf, col_names |-> col_names,
                            strict |-> strict, before |-> df, out |-> r.out]
    /\ UNCHANGED <<ground_truth, predictions, metric, by_feature, ret>>

Next == Do_append_model_scores

Spec == Init /\ [][Next]_vars

---------------------------------------------------------------------------
(* Properties of the table operations (Spec) *)

\* a call of append_model_scores has returned
AppendReturned == call.fn = "append_model_scores" /\ call.out.st = "ok"

\* the names the call iterates over
RequestedMetrics == metrics_tuple(call.metrics)

\* what evaluate_model_performance computes from the cells at POSITION k
ScoresOfRow(k) ==
    evaluate_model_performance(df.cols[ColumnName("ground_truth")][k],
                               df.cols[ColumnName("predictions")][k],
                               RequestedMetrics, call.by_feature, call.strict)

\* C1: after append_model_scores returns, the value at row position k of
\* the output column of every requested metric m is the score vector that
\* evaluate_model_performance computes from the ground-truth and
\* predictions cells of the same row k, whatever the row labels are.
C1_RowScoreComesFromTheSameRow ==
    AppendReturned =>
        \A k \in 1..nrows(df) : \A m \in Range(RequestedMetrics) :
            /\ ScoresOfRow(k).st = "ok"
            /\ m \in DOMAIN ScoresOfRow(k).val
            /\ df.cols[output_column(call.col_names, m)][k] =
                  ScoresOfRow(k).val[m]

\* C2: after append_model_scores returns, the table has for every
\* requested metric m the column metric_col_names[m] when an override
\* mapping is given and the column m otherwise, and the call has created
\* no other column.
C2_ExactlyTheOutputColumnsAreAdded ==
    AppendReturned =>
        DOMAIN df.cols =
            DOMAIN call.before.cols
            \cup {IF call.col_names.given
                  THEN call.col_names.map[m]
                  ELSE ColumnName(m) : m \in Range(RequestedMetrics)}

C2_Witness ==
    /\ AppendReturned
    /\ nrows(df) = 2
    /\ call.col_names.given
    /\ RequestedMetrics = <<"mse">>
    /\ DOMAIN df.cols = {ColumnName("ground_truth"), ColumnName("predictions"),
                         Suffixed(ColumnName("mse"), "_shuffled")}

---------------------------------------------------------------------------
(* np.mean(a, axis=0) and np.std(a, axis=0) of the cells of one column     *)
(* over the rows of a block.  A cell is an array of scores: a score vector *)
(* (shape <<n>>) or a float (shape <<>>).  The cells are added up          *)
(* elementwise with numpy's broadcasting.  NaN propagates.  The arithmetic *)
(* is exact, on rational scores: float64 rounding is not modelled.         *)

Scalar(x) == [shape |-> <<>>, data |-> <<x>>]

\* the shape two shapes do not broadcast to
NoShape == <<-1>>

BroadcastError == "ValueError: operands could not be broadcast together"

ZeroDivisionError == "ZeroDivisionError"

\* the broadcast of two shapes of 0 or 1 dimensions
Broadcast2(s, t) ==
    IF s = NoShape \/ t = NoShape THEN NoShape
    ELSE IF s = <<>> THEN t
    ELSE IF t = <<>> THEN s
    ELSE IF s = t THEN s
    ELSE IF s = <<1>> THEN t
    ELSE IF t = <<1>> THEN s
    ELSE NoShape

RECURSIVE BroadcastShape(_)
BroadcastShape(cells) ==
    IF Len(cells) = 1 THEN cells[1].shape
    ELSE Broadcast2(BroadcastShape(SubSeq(cells, 1, Len(cells) - 1)),
                    cells[Len(cells)].shape)

\* element j of a cell broadcast to a shape
BElem(c, j) == IF Len(c.data) = 1 THEN c.data[1] ELSE c.data[j]

HasNaN(xs) == \E i \in DOMAIN xs : xs[i] = NaN

\* the first score in place of the mean
ScoreFirst(xs) == IF xs = <<>> THEN NaN ELSE xs[1]

\* the mean of a sequence of scores
ScoreMean(xs) ==
    IF HasNaN(xs) \/ xs = <<>> THEN NaN
    ELSE FracMean([i \in DOMAIN xs |-> <<xs[i][2], xs[i][3]>>])

\* the squared deviation of x from mu, as a fraction
SqDev(x, mu) ==
    <<(x[2] * mu[3] - mu[2] * x[3]) * (x[2] * mu[3] - mu[2] * x[3]),
      (x[3] * mu[3]) * (x[3] * mu[3])>>

\* the population standard deviation (ddof = 0) of a sequence of scores
ScoreStd(xs) ==
    IF HasNaN(xs) \/ xs = <<>> THEN NaN
    ELSE LET var == FracMean([i \in DOMAIN xs |-> SqDev(xs[i], ScoreMean(xs))])
         IN  SqrtRat(1, var[2], var[3])

\* the cells reduced elementwise over a shape s
mean_over(cells, s) ==
    IF s = NoShape THEN Raise(BroadcastError)
    ELSE Ok([shape |-> s,
             data |-> [j \in 1..ProdSeq(s) |->
                          ScoreMean([i \in DOMAIN cells |-> BElem(cells[i], j)])]])

std_over(cells, s) ==
    IF s = NoShape THEN Raise(BroadcastError)
    ELSE Ok([shape |-> s,
             data |-> [j \in 1..ProdSeq(s) |->
                          ScoreStd([i \in DOMAIN cells |-> BElem(cells[i], j)])]])

np_mean(cells) == mean_over(cells, BroadcastShape(cells))

np_std(cells) == std_over(cells, BroadcastShape(cells))

---------------------------------------------------------------------------
(* average_across_iterations *)

\* len(np.unique(df[iter_var]))
\* the number of rows in place of the number of iterations
n_iter_rows(d, iter_var) == Len(d.cols[iter_var])

n_iter(d, iter_var) == Cardinality(Range(d.cols[iter_var]))

\* a slice that takes one row more
block_end_wide(d, i, n) == IF i + n + 1 < nrows(d) THEN i + n + 1 ELSE nrows(d)

\* the position (from 1) of the last row of the block that starts at row i
\* (from 0): the slice i : i + n ends with the table
block_end(d, i, n) == IF i + n < nrows(d) THEN i + n ELSE nrows(d)

\* _temp = df.iloc[i : i + n_iter].reset_index(drop=True)
temp(d, i, n) ==
    [index |-> [k \in 1..(block_end(d, i, n) - i) |-> k - 1],
     cols  |-> [c \in DOMAIN d.cols |->
                  SubSeq(d.cols[c], i + 1, block_end(d, i, n))]]

\* x / n
DivScore(x, n) == IF x = NaN THEN NaN ELSE Rat(x[2], x[3] * n)

\* the sum over a block of one row is the row's own array, which np.mean
\* then divides by the row count in place: the table after it
after_mean(d, t, var, i) ==
    IF nrows(t) = 1 /\ ndim(d.cols[var][i + 1]) > 0
    THEN [index |-> d.index,
          cols  |-> [d.cols EXCEPT ![var][i + 1] =
                       [shape |-> d.cols[var][i + 1].shape,
                        data  |-> [j \in DOMAIN d.cols[var][i + 1].data |->
                                     DivScore(d.cols[var][i + 1].data[j],
                                              nrows(t))]]]]
    ELSE d

\* the loop over columns_to_keep from position k on: the value of the
\* block's first row
RECURSIVE keep_columns(_, _, _, _)
keep_columns(t, columns_to_keep, k, dict) ==
    IF k > Len(columns_to_keep) THEN Ok(dict)
    ELSE IF series_getitem(t, columns_to_keep[k], 0).st = "raise"
         THEN Raise(KeyError)
    ELSE keep_columns(t, columns_to_keep, k + 1,
             (columns_to_keep[k] :>
                  series_getitem(t, columns_to_keep[k], 0).val) @@ dict)

\* the averaged column stored under the name of the target column
avg_std_fields_plain(var, avg, std) ==
    (var :> avg) @@ (Suffixed(var, "_std") :> std)

\* the two fields a target column adds to the record
avg_std_fields(var, avg, std) ==
    (Suffixed(var, "_avg") :> avg) @@ (Suffixed(var, "_std") :> std)

RECURSIVE target_columns(_, _, _, _, _, _)

\* the end of pass k of the loop over target_var, avg and std the outcomes
\* of np.mean and np.std
target_stats(d, t, target_var, k, dict, i, avg, std) ==
    IF avg.st = "raise" THEN [df |-> d, out |-> avg]
    ELSE IF std.st = "raise" THEN [df |-> d, out |-> std]
    ELSE target_columns(after_mean(d, t, target_var[k], i), t, target_var,
                        k + 1,
                        avg_std_fields(target_var[k], avg.val, std.val)
                            @@ dict,
                        i)

\* the loop over target_var from position k on
target_columns(d, t, target_var, k, dict, i) ==
    IF k > Len(target_var) THEN [df |-> d, out |-> Ok(dict)]
    ELSE IF target_var[k] \notin DOMAIN t.cols
         THEN [df |-> d, out |-> Raise(KeyError)]
    ELSE target_stats(d, t, target_var, k, dict, i,
                      np_mean(t.cols[target_var[k]]),
                      np_std(t.cols[target_var[k]]))

\* the body of the loop over the blocks, kept the outcome of the loop over
\* columns_to_keep: averaged_result_dict of the block that starts at row i
averaged_result_dict(d, t, target_var, i, kept) ==
    IF kept.st = "raise" THEN [df |-> d, out |-> kept]
    ELSE target_columns(d, t, target_var, 1, kept.val, i)

\* a block that starts one row late
block_start_late(i) == i + 1

\* the first row (from 0) of the slice of the pass at i
block_start(i) == i

RECURSIVE average_blocks(_, _, _, _, _, _)

\* the end of the pass at i, r its record: averaged_result_list_dict.append
append_block(d, target_var, columns_to_keep, n, i, list, r) ==
    IF r.out.st = "raise" THEN r
    ELSE average_blocks(r.df, target_var, columns_to_keep, n, i + n,
                        Append(list, r.out.val))

\* the loop for i in np.arange(0, len(df), n_iter), from i on
average_blocks(d, target_var, columns_to_keep, n, i, list) ==
    IF i >= nrows(d) THEN [df |-> d, out |-> Ok(list)]
    ELSE append_block(d, target_var, columns_to_keep, n, i, list,
             averaged_result_dict(d, temp(d, block_start(i), n), target_var,
                 block_start(i),
                 keep_columns(temp(d, block_start(i), n), columns_to_keep,
                              1, <<>>)))

\* pd.DataFrame(list of records): one row per record, the columns the keys
RangeIndex(n) == [k \in 1..n |-> k - 1]

DataFrame(list) ==
    IF list = <<>> THEN EmptyTable
    ELSE [index |-> RangeIndex(Len(list)),
          cols  |-> [c \in DOMAIN list[1] |->
                       [k \in DOMAIN list |-> list[k][c]]]]

\* the averaged table written back over the input table
averaged_result_df_in_place(r) ==
    IF r.out.st = "raise" THEN r
    ELSE [df |-> DataFrame(r.out.val), out |-> Ok(DataFrame(r.out.val))]

\* the end of the call, r the outcome of the loop over the blocks
averaged_result_df(r) ==
    IF r.out.st = "raise" THEN r
    ELSE [df |-> r.df, out |-> Ok(DataFrame(r.out.val))]

\* if isinstance(target_var, str): target_var = tuple(target_var)
target_tuple(target_var) == target_var.items

\* the call with a check that the rows divide into whole blocks
average_across_iterations_checked(d, iter_var, target_var, columns_to_keep) ==
    IF iter_var \notin DOMAIN d.cols THEN [df |-> d, out |-> Raise(KeyError)]
    ELSE IF n_iter(d, iter_var) = 0
         THEN [df |-> d, out |-> Raise(ZeroDivisionError)]
    ELSE IF nrows(d) % n_iter(d, iter_var) # 0
         THEN [df |-> d, out |-> Raise("ValueError: rows are not whole blocks")]
    ELSE averaged_result_df(
             average_blocks(d, target_tuple(target_var), columns_to_keep,
                            n_iter(d, iter_var), 0, <<>>))

\* returns [df, out]: the input table after the call and the outcome;
\* np.arange(0, len(df), 0) raises
average_across_iterations(d, iter_var, target_var, columns_to_keep) ==
    IF iter_var \notin DOMAIN d.cols THEN [df |-> d, out |-> Raise(KeyError)]
    ELSE IF n_iter(d, iter_var) = 0
         THEN [df |-> d, out |-> Raise(ZeroDivisionError)]
    ELSE averaged_result_df(
             average_blocks(d, target_tuple(target_var), columns_to_keep,
                            n_iter(d, iter_var), 0, <<>>))

---------------------------------------------------------------------------
(* The tables average_across_iterations is applied to: the results table   *)
(* as the pipeline leaves it, with the fold of each row, one descriptive   *)
(* column, the score vector of a metric and its per-row mean               *)

Folds == {0, 1}

BrainAreas == {"V1", "V4"}

\* the score vectors of a row: two of the same length, one with a NaN
\* entry, one of length 1 (it broadcasts), one of another length
TargetCells ==
    {Vector(<<Rat(0, 1), Rat(1, 1)>>),
     Vector(<<Rat(1, 1), NaN>>),
     Vector(<<Rat(1, 2)>>),
     Vector(<<Rat(1, 2), Rat(1, 2), Rat(0, 1)>>)}

AvgRows == [fold : Folds, brain_area : BrainAreas, mse : TargetCells]

\* the table of a sequence of rows
AvgTable(rows) ==
    [index |-> RangeIndex(Len(rows)),
     cols  |-> (ColumnName("fold") :> [k \in DOMAIN rows |-> rows[k].fold])
               @@ (ColumnName("brain_area") :>
                      [k \in DOMAIN rows |-> rows[k].brain_area])
               @@ (ColumnName("mse") :> [k \in DOMAIN rows |-> rows[k].mse])
               @@ (Suffixed(ColumnName("mse"), "_mean") :>
                      [k \in DOMAIN rows |->
                          Scalar(ScoreMean(rows[k].mse.data))])]

AvgTables ==
    UNION {{AvgTable(rows) : rows \in [1..n -> AvgRows]} : n \in 0..MaxFoldRows}

\* the <<target_var, columns_to_keep>> arguments: one and two target
\* columns, no descriptive column, a missing target column, a missing
\* descriptive column, a bare string
AvgArgs ==
    {<<ListArg(<<ColumnName("mse")>>), <<ColumnName("brain_area")>>>>,
     <<ListArg(<<ColumnName("mse"), Suffixed(ColumnName("mse"), "_mean")>>),
       <<ColumnName("brain_area")>>>>,
     <<ListArg(<<Suffixed(ColumnName("mse"), "_mean")>>), <<>>>>,
     <<ListArg(<<ColumnName("r2")>>), <<ColumnName("brain_area")>>>>,
     <<ListArg(<<ColumnName("mse")>>),
       <<ColumnName("brain_area"), ColumnName("bin_center")>>>>,
     <<StrArg("mse", <<ColumnName("m"), ColumnName("s"), ColumnName("e")>>),
       <<ColumnName("brain_area")>>>>}

InitAvg ==
    /\ df \in AvgTables
    /\ call = NoCall
    /\ ground_truth = ZeroArray(<<1>>)
    /\ predictions = ZeroArray(<<1>>)
    /\ metric = <<>>
    /\ by_feature = TRUE
    /\ ret = NoCall

Do_average_across_iterations ==
    /\ call.fn = "none"
    /\ \E a \in AvgArgs :
          \E r \in {average_across_iterations(df, ColumnName("fold"),
                                              a[1], a[2])} :
              /\ df' = r.df
              /\ call' = [fn |-> "average_across_iterations",
                          target_var |-> a[1], columns_to_keep |-> a[2],
                          before |-> df, out |-> r.out]
    /\ UNCHANGED <<ground_truth, predictions, metric, by_feature, ret>>

NextAvg == Do_average_across_iterations

SpecAvg == InitAvg /\ [][NextAvg]_vars

---------------------------------------------------------------------------
(* Properties of average_across_iterations (SpecAvg) *)

AvgCalled == call.fn = "average_across_iterations"

AvgReturned == AvgCalled /\ call.out.st = "ok"

\* the target columns of the call
TargetVars == Range(target_tuple(call.target_var))

\* n_iter of the table the call was applied to
AvgN == n_iter(call.before, ColumnName("fold"))

\* the block (from 1) of the row at position j (from 1)
BlockOf(j) == ((j - 1) \div AvgN) + 1

\* the number of blocks: a trailing short block counts
NumBlocks == (nrows(call.before) + AvgN - 1) \div AvgN

\* the positions of the rows of block k
BlockRows(k) == {j \in 1..nrows(call.before) : BlockOf(j) = k}

\* the call names columns of the table
AvgColumnsPresent ==
    TargetVars \cup Range(call.columns_to_keep) \subseteq DOMAIN call.before.cols

\* the cells of a target column have one shape inside a block
UniformBlocks ==
    \A c \in TargetVars \cap DOMAIN call.before.cols :
        \A i, j \in 1..nrows(call.before) :
            BlockOf(i) = BlockOf(j) =>
                call.before.cols[c][i].shape = call.before.cols[c][j].shape

\* row k of a table, as a record
OutRow(t, k) == [c \in DOMAIN t.cols |-> t.cols[c][k]]

\* the table with the row at position j replaced by the row r
ReplaceRow(t, j, r) ==
    [index |-> t.index,
     cols  |-> [c \in DOMAIN t.cols |->
                  [t.cols[c] EXCEPT ![j] = AvgTable(<<r>>).cols[c][1]]]]

\* what the call returns for another table
Recompute(t) ==
    average_across_iterations(t, ColumnName("fold"), call.target_var,
                              call.columns_to_keep).out

\* the output rows of every block other than b are those of the outcome o
\* of the call for another table, when it returns
SameOutRows(o, b) ==
    o.st = "ok" =>
        \A k \in 1..NumBlocks \ {b} :
            OutRow(o.val, k) = OutRow(call.out.val, k)

\* the output rows of the other blocks do not change when the row at j is
\* replaced by the row r, n_iter staying as it is
OtherBlocksUnaffected(j, r) ==
    (r.fold = call.before.cols[ColumnName("fold")][j]
        \/ n_iter(ReplaceRow(call.before, j, r), ColumnName("fold")) = AvgN)
    => SameOutRows(Recompute(ReplaceRow(call.before, j, r)), BlockOf(j))

\* the rows that differ from the row at j in the descriptive column and in
\* the score vector (and in the fold or not)
RowsUnlike(j) ==
    {r \in AvgRows :
        /\ r.brain_area # call.before.cols[ColumnName("brain_area")][j]
        /\ r.mse # call.before.cols[ColumnName("mse")][j]}

\* one output row per block; the k-th output row does not change when a
\* row outside block k is replaced by a row unlike it; the input table is
\* as before
OneRowPerBlock ==
    /\ AvgReturned
    /\ nrows(call.out.val) = NumBlocks
    /\ NumBlocks > 1 =>
          \A j \in 1..nrows(call.before) :
              \A r \in RowsUnlike(j) : OtherBlocksUnaffected(j, r)
    /\ df = call.before

\* C11 (as claimed): average_across_iterations returns one output row per
\* block of n_iter consecutive input rows, the k-th computed only from the
\* rows of block k, and leaves the input table identical; for every table
\* whose columns the call names, with cells of one shape inside a block.
C11_OneRowPerBlockForEveryTable ==
    (AvgCalled /\ AvgColumnsPresent /\ UniformBlocks) => OneRowPerBlock

\* C11 (amended): the same for every table of at least one row; for a
\* table of no rows n_iter is 0 and the call raises.
C11_OneRowPerBlockForNonEmptyTable ==
    /\ (AvgCalled /\ AvgColumnsPresent /\ UniformBlocks
           /\ nrows(call.before) > 0) => OneRowPerBlock
    /\ (AvgCalled /\ nrows(call.before) = 0) => call.out.st = "raise"

C11_Witness ==
    /\ AvgReturned
    /\ call.columns_to_keep = <<ColumnName("brain_area")>>
    /\ call.before.cols[ColumnName("fold")] = <<0, 1, 0>>
    /\ call.before.cols[ColumnName("brain_area")] = <<"V1", "V1", "V4">>
    /\ nrows(call.out.val) = 2
    /\ call.out.val.cols[ColumnName("brain_area")] = <<"V1", "V4">>
    /\ df = call.before

\* the position of the first row of block k
FirstRow(k) == (k - 1) * AvgN + 1

\* the positions of the rows of block k, in order
BlockSeq(k) == SortedSeq(BlockRows(k))

\* entry e of the cells of column c over the rows of block k
EntriesOf(c, k, e) ==
    [i \in DOMAIN BlockSeq(k) |-> call.before.cols[c][BlockSeq(k)[i]].data[e]]

\* the columns of the output: the descriptive columns and the two fields
\* of every target column
OutputColumns ==
    Range(call.columns_to_keep)
    \cup {Suffixed(c, "_avg") : c \in TargetVars}
    \cup {Suffixed(c, "_std") : c \in TargetVars}

\* output row k holds the descriptive values of the first row of block k
\* and the elementwise mean and standard deviation of every target column
\* over the rows of block k
BlockStatistics(k) ==
    /\ \A c \in Range(call.columns_to_keep) :
          call.out.val.cols[c][k] = call.before.cols[c][FirstRow(k)]
    /\ \A c \in TargetVars :
          /\ call.out.val.cols[Suffixed(c, "_avg")][k].shape =
                call.before.cols[c][FirstRow(k)].shape
          /\ call.out.val.cols[Suffixed(c, "_std")][k].shape =
                call.before.cols[c][FirstRow(k)].shape
          /\ \A e \in DOMAIN call.before.cols[c][FirstRow(k)].data :
                /\ call.out.val.cols[Suffixed(c, "_avg")][k].data[e] =
                      ScoreMean(EntriesOf(c, k, e))
                /\ call.out.val.cols[Suffixed(c, "_std")][k].data[e] =
                      ScoreStd(EntriesOf(c, k, e))

\* the standard deviation of entry e of column c in output row k
StdEntry(c, k, e) == call.out.val.cols[Suffixed(c, "_std")][k].data[e]

FullLike(c, x) == [shape |-> c.shape, data |-> [e \in DOMAIN c.data |-> x]]

\* the array of the shape of the cell c that holds NaN where c holds NaN
\* and 0 elsewhere
ZeroOrNaNLike(c) ==
    [shape |-> c.shape,
     data  |-> [e \in DOMAIN c.data |->
                  IF c.data[e] = NaN THEN NaN ELSE Rat(0, 1)]]

\* C13 (as claimed): when the iteration column has a single distinct value
\* (n_iter = 1) the call returns one output row per input row in which,
\* for every target column, _avg is the original value of the row and
\* _std is 0.
C13_SingleRowBlockGivesValueAndZero ==
    (AvgReturned /\ AvgN = 1) =>
        /\ nrows(call.out.val) = nrows(call.before)
        /\ \A k \in 1..nrows(call.before) : \A c \in TargetVars :
              /\ call.out.val.cols[Suffixed(c, "_avg")][k] =
                    call.before.cols[c][k]
              /\ call.out.val.cols[Suffixed(c, "_std")][k] =
                    FullLike(call.before.cols[c][k], Rat(0, 1))

\* C13 (amended): the same, _std being 0 at every entry at which the
\* original value is not NaN, and NaN where it is NaN.
C13_SingleRowBlockGivesValueAndZeroOrNaN ==
    (AvgReturned /\ AvgN = 1) =>
        /\ nrows(call.out.val) = nrows(call.before)
        /\ \A k \in 1..nrows(call.before) : \A c \in TargetVars :
              /\ call.out.val.cols[Suffixed(c, "_avg")][k] =
                    call.before.cols[c][k]
              /\ call.out.val.cols[Suffixed(c, "_std")][k] =
                    ZeroOrNaNLike(call.before.cols[c][k])

C13_Witness ==
    /\ AvgReturned
    /\ TargetVars = {ColumnName("mse"), Suffixed(ColumnName("mse"), "_mean")}
    /\ call.before.cols[ColumnName("fold")] = <<1, 1, 1>>
    /\ call.before.cols[ColumnName("mse")] =
          <<Vector(<<Rat(0, 1), Rat(1, 1)>>), Vector(<<Rat(1, 2)>>),
            Vector(<<Rat(1, 1), NaN>>)>>
    /\ call.out.val.cols[Suffixed(ColumnName("mse"), "_avg")] =
          call.before.cols[ColumnName("mse")]
    /\ call.out.val.cols[Suffixed(ColumnName("mse"), "_std")] =
          <<Vector(<<Rat(0, 1), Rat(0, 1)>>), Vector(<<Rat(0, 1)>>),
            Vector(<<Rat(0, 1), NaN>>)>>
    /\ call.out.val.cols[Suffixed(Suffixed(ColumnName("mse"), "_mean"),
                                  "_avg")][1] = Scalar(Rat(1, 2))

\* the rearrangements of the row positions that keep every row inside its
\* block of n_iter consecutive rows
BlockPermutations ==
    {pi \in [1..nrows(call.before) -> 1..nrows(call.before)] :
        /\ IsInjective(pi)
        /\ \A j \in DOMAIN pi : BlockOf(pi[j]) = BlockOf(j)}

\* the table with the row at pi[j] moved to position j
PermuteRows(t, pi) ==
    [index |-> t.index,
     cols  |-> [c \in DOMAIN t.cols |-> [j \in DOMAIN pi |-> t.cols[c][pi[j]]]]]

\* the outcome o of the call for another table has the same number of
\* output rows, with the same _avg and _std values in the same order
SameStatistics(o) ==
    /\ o.st = "ok"
    /\ nrows(o.val) = nrows(call.out.val)
    /\ \A c \in TargetVars :
          /\ o.val.cols[Suffixed(c, "_avg")] =
                call.out.val.cols[Suffixed(c, "_avg")]
          /\ o.val.cols[Suffixed(c, "_std")] =
                call.out.val.cols[Suffixed(c, "_std")]

WholeBlocks == nrows(call.before) % AvgN = 0

IterationsRepeat ==
    \A i, j \in 1..nrows(call.before) :
        (BlockOf(i) = BlockOf(j) /\ i # j) =>
            call.before.cols[ColumnName("fold")][i] #
                call.before.cols[ColumnName("fold")][j]

DescriptiveConstant ==
    \A c \in Range(call.columns_to_keep) \cap DOMAIN call.before.cols :
        \A i, j \in 1..nrows(call.before) :
            BlockOf(i) = BlockOf(j) =>
                call.before.cols[c][i] = call.before.cols[c][j]

\* C15: the call does not validate its block assumption: for a table (of
\* the named columns, target cells of one shape inside a block) whose row
\* count is not a multiple of n_iter, whose iteration values are not
\* repeated block by block or whose descriptive columns vary inside a
\* block, it raises no error and returns a table; a trailing short block
\* is averaged over the rows that remain and each descriptive field takes
\* the value of the block's first row.
C15_BrokenBlockAssumptionIsNotDetected ==
    (AvgCalled /\ AvgColumnsPresent /\ UniformBlocks
        /\ nrows(call.before) > 0
        /\ (~WholeBlocks \/ ~IterationsRepeat \/ ~DescriptiveConstant)) =>
        /\ AvgReturned
        /\ nrows(call.out.val) = NumBlocks
        /\ \A k \in 1..NumBlocks : BlockStatistics(k)

C15_Witness ==
    /\ AvgReturned
    /\ call.columns_to_keep = <<ColumnName("brain_area")>>
    /\ TargetVars = {ColumnName("mse")}
    /\ call.before.cols[ColumnName("fold")] = <<0, 1, 0>>
    /\ call.before.cols[ColumnName("brain_area")] = <<"V1", "V4", "V4">>
    /\ call.before.cols[ColumnName("mse")][1] = Vector(<<Rat(0, 1), Rat(1, 1)>>)
    /\ call.before.cols[ColumnName("mse")][2] = Vector(<<Rat(1, 1), NaN>>)
    /\ ~WholeBlocks /\ ~DescriptiveConstant
    /\ call.out.val.cols[ColumnName("brain_area")] = <<"V1", "V4">>
    /\ call.out.val.cols[Suffixed(ColumnName("mse"), "_avg")][2] =
          call.before.cols[ColumnName("mse")][3]

---------------------------------------------------------------------------
(* numpy's global random generator.  Its state is a number; np.random.seed *)
(* sets it, and np.random.permutation draws from it: which permutation a   *)
(* state yields is a fixed function of the state (here the permutation     *)
(* whose Lehmer code is the state), and so is the state after the draw.    *)

\* np.random.seed(42)
Seed == 42

seed(n) == n % 256

\* the state after one draw
next_state(g) == (g * 3 + 1) % 256

RemoveAt(xs, k) == SubSeq(xs, 1, k - 1) \o SubSeq(xs, k + 1, Len(xs))

\* the rearrangement of xs that the state g selects
RECURSIVE shuffled(_, _)
shuffled(xs, g) ==
    IF xs = <<>> THEN <<>>
    ELSE <<xs[(g % Len(xs)) + 1]>>
         \o shuffled(RemoveAt(xs, (g % Len(xs)) + 1), g \div Len(xs))

RECURSIVE Concat(_)
Concat(ss) == IF ss = <<>> THEN <<>> ELSE Head(ss) \o Concat(Tail(ss))

\* the elements of an array rearranged, whatever its shape
permutation_of_elements(arr, g) ==
    [shape |-> arr.shape, data |-> shuffled(arr.data, g)]

\* np.random.permutation(arr): the elements of a 1-d array, the rows of a
\* 2-d array, rearranged
permutation(arr, g) ==
    IF ndim(arr) = 1 THEN Vector(shuffled(arr.data, g))
    ELSE [shape |-> arr.shape,
          data  |-> Concat([k \in 1..arr.shape[1] |->
                        Row(arr, shuffled([i \in 1..arr.shape[1] |-> i], g)[k])])]

\* df[gt_col].apply(np.random.permutation) from row k on: the cells, each
\* drawn from the state the draw before it left, and the state at the end
RECURSIVE apply_permutation(_, _, _, _)
apply_permutation(cells, g, k, acc) ==
    IF k > Len(cells) THEN [cells |-> acc, rng |-> g]
    ELSE apply_permutation(cells, next_state(g), k + 1,
                           Append(acc, permutation(cells[k], g)))

---------------------------------------------------------------------------
(* process_results_multiple_regression.  A call is the record              *)
(*   [fn, stage, ran, metrics, active, by_feature, avg_across_variables,   *)
(*    shuffle_ground_truth, columns_to_keep, strict, rng, before, out]:    *)
(* stage is the position of the call (the stage it runs next, "done" or    *)
(* "raised"), ran the stages it has entered, metrics the argument, active  *)
(* the names the variable metrics holds (as column names), rng the state   *)
(* of the global random generator, before the table at the call.           *)

AttributeError == "AttributeError: object has no attribute 'append'"

StackError == "ValueError: np.stack"

\* model_eval_input_cols, by default
GtCol == ColumnName("ground_truth")

PredCol == ColumnName("predictions")

GtShuffledCol == ColumnName("ground_truth_shuffled")

\* iter_var="fold"
FoldCol == ColumnName("fold")

\* shuffled_metrics and metric_col_names of the shuffle stage
ShuffledMetrics == ListArg(<<"balanced_accuracy">>)

ShuffledColumn == Suffixed(ColumnName("balanced_accuracy"), "_shuffled")

ShuffledColNames == ColNames("balanced_accuracy" :> ShuffledColumn)

Running == [st |-> "running", val |-> "None"]

\* the stage that follows the stage s, by the flags of the call
next_stage(c, s) ==
    IF s = "append" /\ c.shuffle_ground_truth THEN "shuffle"
    ELSE IF s \in {"append", "shuffle"} /\ c.avg_across_variables THEN "mean"
    ELSE IF s \in {"append", "shuffle", "mean"} THEN "average"
    ELSE "done"

\* the error is recorded and the call goes on to the next stage
raised_and_continued(d, c, s, e) ==
    [df |-> d,
     call |-> [c EXCEPT !.stage = next_stage(c, s), !.ran = Append(@, s),
                        !.out = e]]

\* the stage s raises e: the call ends
raised(d, c, s, e) ==
    [df |-> d,
     call |-> [c EXCEPT !.stage = "raised", !.ran = Append(@, s), !.out = e]]

\* the stage s completes
completed(d, c, s) ==
    [df |-> d,
     call |-> [c EXCEPT !.stage = next_stage(c, s), !.ran = Append(@, s)]]

\* stage 1, r the outcome of append_model_scores
append_stage(c, r) ==
    IF r.out.st = "raise" THEN raised(r.df, c, "append", r.out)
    ELSE completed(r.df, c, "append")

\* the generator left as it is
unseeded(g) == g

\* the state of the generator after np.random.seed(42)
seeded(g) == seed(Seed)

\* the end of stage 2, r the outcome of append_model_scores: the column of
\* the shuffled score is appended to metrics
shuffle_register(c, r) ==
    IF r.out.st = "raise" THEN raised(r.df, c, "shuffle", r.out)
    ELSE IF ~c.metrics.is_list
         THEN raised(r.df, c, "shuffle", Raise(AttributeError))
    ELSE completed(r.df, [c EXCEPT !.active = Append(@, ShuffledColumn)],
                   "shuffle")

\* stage 2 after the permutations p of the ground-truth cells
shuffle_scored(d, c, p) ==
    shuffle_register([c EXCEPT !.rng = p.rng],
        append_model_scores(set_column(d, GtShuffledCol, p.cells),
                            ShuffledMetrics, c.by_feature, GtShuffledCol,
                            PredCol, ShuffledColNames, c.strict))

\* stage 2
shuffle_stage(d, c) ==
    IF GtCol \notin DOMAIN d.cols THEN raised(d, c, "shuffle", Raise(KeyError))
    ELSE shuffle_scored(d, c,
             apply_permutation(d.cols[GtCol], seeded(c.rng), 1, <<>>))

\* np.stack takes at least one array, and arrays of one shape
Stackable(cells) ==
    /\ cells # <<>>
    /\ \A i \in DOMAIN cells : cells[i].shape = cells[1].shape

\* the mean of the first score vector, for every row
first_row_means(cells) ==
    [i \in DOMAIN cells |-> Scalar(ScoreMean(cells[1].data))]

\* the mean of every row's score vector
row_means(cells) == [i \in DOMAIN cells |-> Scalar(ScoreMean(cells[i].data))]

\* stage 3: the loop over metrics from position k on, then the renaming of
\* metrics
RECURSIVE mean_stage(_, _, _)
mean_stage(d, c, k) ==
    IF k > Len(c.active)
    THEN completed(d, [c EXCEPT !.active =
                          [i \in DOMAIN c.active |->
                              Suffixed(c.active[i], "_mean")]], "mean")
    ELSE IF c.active[k] \notin DOMAIN d.cols
         THEN raised(d, c, "mean", Raise(KeyError))
    ELSE IF c.by_feature /\ ~Stackable(d.cols[c.active[k]])
         THEN raised(d, c, "mean", Raise(StackError))
    ELSE mean_stage(set_column(d, Suffixed(c.active[k], "_mean"),
                               row_means(d.cols[c.active[k]])),
                    c, k + 1)

\* the end of stage 4, r the outcome of average_across_iterations
average_returned(c, r) ==
    IF r.out.st = "raise" THEN raised(r.df, c, "average", r.out)
    ELSE [df |-> r.df,
          call |-> [c EXCEPT !.stage = "done", !.ran = Append(@, "average"),
                             !.out = r.out]]

\* stage 4
average_stage(d, c) ==
    average_returned(c, average_across_iterations(d, FoldCol,
                                                  ListArg(c.active),
                                                  c.columns_to_keep))

\* the call on entry
entry(d, metrics, bf, avg, shuffle, keep, strict, g) ==
    [fn |-> "process_results_multiple_regression", stage |-> "append",
     ran |-> <<>>, metrics |-> metrics,
     active |-> [k \in DOMAIN metrics.items |-> ColumnName(metrics.items[k])],
     by_feature |-> bf, avg_across_variables |-> avg,
     shuffle_ground_truth |-> shuffle, columns_to_keep |-> keep,
     strict |-> strict, rng |-> g, before |-> d, out |-> Running]

\* entry and stage 1
first_stage(d, c) ==
    append_stage(c, append_model_scores(d, c.metrics, c.by_feature, GtCol,
                                        PredCol, NoColNames, c.strict))

\* the stage the call is at
stage_step(d, c) ==
    IF c.stage = "append" THEN first_stage(d, c)
    ELSE IF c.stage = "shuffle" THEN shuffle_stage(d, c)
    ELSE IF c.stage = "mean" THEN mean_stage(d, c, 1)
    ELSE average_stage(d, c)

\* the stages one after the other, until the call returns or raises
RECURSIVE run_stages(_)
run_stages(s) ==
    IF s.call.stage \in {"done", "raised"} THEN s
    ELSE run_stages(stage_step(s.df, s.call))

\* the whole call: [df, call], the table after it and the call at its end
process_results_multiple_regression(d, metrics, bf, avg, shuffle, keep, strict, g) ==
    run_stages([df |-> d,
                call |-> entry(d, metrics, bf, avg, shuffle, keep, strict, g)])

---------------------------------------------------------------------------
(* The tables and the arguments of process_results_multiple_regression *)

\* the <<ground truth, predictions>> cells of a row: a pair of 1-d vectors
\* (one feature) and a pair of matrices (two features)
ProcRowPool ==
    {<<Vector(<<0, 1>>), Vector(<<0, 1>>)>>,
     <<Matrix(2, 2, <<0, 1, 1, 0>>), Matrix(2, 2, <<0, 1, 1, 1>>)>>}

ProcRows == [pair : ProcRowPool, fold : Folds]

\* the row labels: the range index, or the same labels in reverse order
ProcIndexSet(n) == {RangeIndex(n), [k \in 1..n |-> n - k]}

ProcTable(rows, ix) ==
    [index |-> ix,
     cols  |-> (GtCol :> [k \in DOMAIN rows |-> rows[k].pair[1]])
               @@ (PredCol :> [k \in DOMAIN rows |-> rows[k].pair[2]])
               @@ (FoldCol :> [k \in DOMAIN rows |-> rows[k].fold])
               @@ (ColumnName("brain_area") :> [k \in DOMAIN rows |-> "V1"])]

ProcTables ==
    UNION {{ProcTable(rows, ix) :
               rows \in [1..n -> ProcRows], ix \in ProcIndexSet(n)} :
           n \in 0..MaxRows}

ProcMetricPool == {"mse", "balanced_accuracy"}

\* metrics by default
DefaultMetrics == TupleArg(<<"r2", "corr">>)

\* the metrics arguments: lists over the pool, a list with an unsupported
\* name, and the default
ProcMetricsArgs ==
    {ListArg(m) : m \in SeqsOver(ProcMetricPool)}
    \cup {ListArg(<<"kendall">>), DefaultMetrics}

\* columns_to_keep by default
DefaultColumnsToKeep ==
    <<ColumnName("brain_area"), ColumnName("bin_center"),
      ColumnName("bin_size"), ColumnName("embedding")>>

KeepArgs == {<<ColumnName("brain_area")>>, DefaultColumnsToKeep}

\* the states the global random generator is in before a call
GeneratorStates == {0, 7}

InitProc ==
    /\ df \in ProcTables
    /\ call = NoCall
    /\ ground_truth = ZeroArray(<<1>>)
    /\ predictions = ZeroArray(<<1>>)
    /\ metric = <<>>
    /\ by_feature = TRUE
    /\ ret = NoCall

\* the call is at the stage s
AtStage(s) ==
    /\ call.fn = "process_results_multiple_regression"
    /\ call.stage = s

\* the call is made: entry and stage 1
Do_process_results_multiple_regression ==
    /\ call.fn = "none"
    /\ \E metrics \in ProcMetricsArgs, bf \in BOOLEAN, avg \in BOOLEAN,
          shuffle \in BOOLEAN, keep \in KeepArgs, strict \in BOOLEAN,
          g \in GeneratorStates :
          \E r \in {first_stage(df, entry(df, metrics, bf, avg, shuffle,
                                          keep, strict, g))} :
              /\ df' = r.df
              /\ call' = r.call
    /\ UNCHANGED <<ground_truth, predictions, metric, by_feature, ret>>

Stage_shuffle ==
    /\ AtStage("shuffle")
    /\ \E r \in {shuffle_stage(df, call)} : df' = r.df /\ call' = r.call
    /\ UNCHANGED <<ground_truth, predictions, metric, by_feature, ret>>

Stage_mean ==
    /\ AtStage("mean")
    /\ \E r \in {mean_stage(df, call, 1)} : df' = r.df /\ call' = r.call
    /\ UNCHANGED <<ground_truth, predictions, metric, by_feature, ret>>

Stage_average ==
    /\ AtStage("average")
    /\ \E r \in {average_stage(df, call)} : df' = r.df /\ call' = r.call
    /\ UNCHANGED <<ground_truth, predictions, metric, by_feature, ret>>

NextProc ==
    \/ Do_process_results_multiple_regression
    \/ Stage_shuffle
    \/ Stage_mean
    \/ Stage_average

SpecProc == InitProc /\ [][NextProc]_vars

---------------------------------------------------------------------------
(* Properties of process_results_multiple_regression (SpecProc) *)

ProcCalled == call.fn = "process_results_multiple_regression"

ProcReturned == AtStage("done")

ProcRaised == AtStage("raised")

\* the stages of a call in their order: the raw scores, the shuffle
\* baseline if requested, the per-row mean if requested, the averaging
StagesOf(c) ==
    <<"append">>
    \o (IF c.shuffle_ground_truth THEN <<"shuffle">> ELSE <<>>)
    \o (IF c.avg_across_variables THEN <<"mean">> ELSE <<>>)
    \o <<"average">>

IsPrefix(a, b) == Len(a) <= Len(b) /\ a = SubSeq(b, 1, Len(a))

\* C16: the stages of a call run in the fixed order append, shuffle (only
\* if shuffle_ground_truth), mean (only if avg_across_variables), average,
\* each at most once and none before the one before it has completed; an
\* error raised in a stage ends the call: no later stage runs and no
\* averaged table is returned.
C16_StagesRunInOrderAndAnErrorEndsTheCall ==
    ProcCalled =>
        /\ IsPrefix(call.ran, StagesOf(call))
        /\ call.stage = "done" =>
              (call.ran = StagesOf(call) /\ call.out.st = "ok")
        /\ call.stage = "raised" =>
              (call.ran # <<>> /\ call.out.st = "raise")
        /\ call.stage \notin {"done", "raised"} =>
              /\ call.out = Running
              /\ Len(call.ran) < Len(StagesOf(call))
              /\ call.stage = StagesOf(call)[Len(call.ran) + 1]

C16_Witness ==
    /\ ProcRaised
    /\ call.shuffle_ground_truth /\ call.avg_across_variables
    /\ call.ran = <<"append", "shuffle", "mean">>
    /\ call.out = Raise(StackError)
    /\ ShuffledColumn \in DOMAIN df.cols

\* the call has come to its end, by a return or by an error
ProcEnded == ProcReturned \/ ProcRaised

\* a separate run on the input of the call, the generator in the state g
RunAgain(g) ==
    process_results_multiple_regression(call.before, call.metrics,
        call.by_feature, call.avg_across_variables, call.shuffle_ground_truth,
        call.columns_to_keep, call.strict, g)

\* the run r ended as the call did: the same table, with the same shuffled
\* ground truth and the same shuffled scores, and the same outcome
SameRun(r) ==
    /\ r.df = df
    /\ r.call.out = call.out
    /\ r.call.ran = call.ran
    /\ GtShuffledCol \in DOMAIN df.cols =>
          r.df.cols[GtShuffledCol] = df.cols[GtShuffledCol]
    /\ ShuffledColumn \in DOMAIN df.cols =>
          r.df.cols[ShuffledColumn] = df.cols[ShuffledColumn]

\* C17: the shuffle baseline is deterministic: a separate run with
\* shuffle_ground_truth on the same table contents and the same arguments
\* ends with the same ground_truth_shuffled column, the same
\* balanced_accuracy_shuffled scores and the same returned table, whatever
\* the state of the global random generator before the run.
C17_ShuffleBaselineIsDeterministic ==
    (ProcEnded /\ call.shuffle_ground_truth) =>
        \A g \in GeneratorStates : SameRun(RunAgain(g))

C17_Witness ==
    /\ ProcReturned /\ call.shuffle_ground_truth
    /\ ShuffledColumn \in DOMAIN df.cols
    /\ df.cols[GtShuffledCol] # df.cols[GtCol]
    /\ \E g \in GeneratorStates :
          apply_permutation(df.cols[GtCol], g, 1, <<>>).cells
             # df.cols[GtShuffledCol]
    /\ \A g \in GeneratorStates : SameRun(RunAgain(g))

\* the shuffle stage has been entered: stage 1 accepted the metrics
ShuffleEntered ==
    ProcCalled /\ Len(call.ran) >= 2 /\ call.ran[2] = "shuffle"

\* the shuffle stage raised
ShuffleRaised == ShuffleEntered /\ ProcRaised /\ Len(call.ran) = 2

\* the name under which the column c is averaged
AveragedName(c) ==
    IF call.avg_across_variables THEN Suffixed(c, "_mean") ELSE c

\* the returned table has the averaged columns of the column c
HasAveraged(c) ==
    /\ Suffixed(AveragedName(c), "_avg") \in DOMAIN call.out.val.cols
    /\ Suffixed(AveragedName(c), "_std") \in DOMAIN call.out.val.cols

\* C18: when shuffle_ground_truth is requested, for every metrics argument
\* the function accepts (its default included) the shuffle stage completes,
\* the column balanced_accuracy_shuffled holds the scores of the shuffled
\* ground truth, the column is registered in the active metric list, and
\* the returned table carries its averaged columns and those of every
\* requested metric.
C18_ShuffleStageCompletesAndRegistersTheBaseline ==
    (ShuffleEntered /\ call.shuffle_ground_truth) =>
        /\ ~ShuffleRaised
        /\ ShuffledColumn \in DOMAIN df.cols
        /\ \E k \in DOMAIN call.active :
              call.active[k] \in {ShuffledColumn,
                                  Suffixed(ShuffledColumn, "_mean")}
        /\ ProcReturned =>
              /\ HasAveraged(ShuffledColumn)
              /\ \A k \in DOMAIN call.metrics.items :
                    HasAveraged(ColumnName(call.metrics.items[k]))

\* the mean stage has completed
MeanCompleted ==
    /\ ProcCalled /\ call.avg_across_variables
    /\ \E k \in DOMAIN call.ran : call.ran[k] = "mean"
    /\ ~(ProcRaised /\ call.ran[Len(call.ran)] = "mean")

\* the score columns of the active metrics before the mean stage: those of
\* the requested metrics and the registered shuffled baseline
ActiveScoreColumns ==
    [k \in DOMAIN call.metrics.items |-> ColumnName(call.metrics.items[k])]
    \o (IF call.shuffle_ground_truth THEN <<ShuffledColumn>> ELSE <<>>)

ScoreColumns == Range(ActiveScoreColumns)

\* the column <m>_mean holds, in every row, the mean of the row's scores
MeanColumnOf(m) ==
    /\ Suffixed(m, "_mean") \in DOMAIN df.cols
    /\ \A i \in DOMAIN df.index :
          /\ df.cols[Suffixed(m, "_mean")][i].shape = <<>>
          /\ df.cols[Suffixed(m, "_mean")][i].data[1]
                = ScoreMean(df.cols[m][i].data)

\* the returned table averages <m>_mean and not m
AveragesMeanOnly(m) ==
    /\ Suffixed(Suffixed(m, "_mean"), "_avg") \in DOMAIN call.out.val.cols
    /\ Suffixed(Suffixed(m, "_mean"), "_std") \in DOMAIN call.out.val.cols
    /\ Suffixed(m, "_avg") \notin DOMAIN call.out.val.cols
    /\ Suffixed(m, "_std") \notin DOMAIN call.out.val.cols

\* C19: when avg_across_variables is requested, for every active metric m
\* (a registered shuffled baseline included) and every row the column
\* <m>_mean holds the single scalar mean of the row's score vector for m,
\* and the averaging is applied to the <m>_mean columns only: the returned
\* table has <m>_mean_avg and <m>_mean_std and no <m>_avg or <m>_std.
C19_MeanColumnsAreAddedAndAveraged ==
    MeanCompleted =>
        /\ \A m \in ScoreColumns : MeanColumnOf(m)
        /\ call.active = [k \in DOMAIN ActiveScoreColumns |->
                             Suffixed(ActiveScoreColumns[k], "_mean")]
        /\ ProcReturned => \A m \in ScoreColumns : AveragesMeanOnly(m)

C19_Witness ==
    /\ ProcReturned /\ MeanCompleted /\ call.shuffle_ground_truth
    /\ Len(df.index) = 2
    /\ \A m \in ScoreColumns : MeanColumnOf(m) /\ AveragesMeanOnly(m)
    /\ \E m \in ScoreColumns :
          /\ Len(df.cols[m][1].data) = 2
          /\ df.cols[m][1].data[1] # df.cols[m][1].data[2]
          /\ df.cols[Suffixed(m, "_mean")][1] # df.cols[Suffixed(m, "_mean")][2]

---------------------------------------------------------------------------
(* Calls of the three table operations one after the other on one results  *)
(* table.  The call record is [fn, fns, first, before, out]: the function  *)
(* called last, the functions called so far, the table before the first    *)
(* call, the table before the last call and the outcome of the last call.  *)

\* the tables: those of the pipeline with the default row labels
SeqTables == {t \in ProcTables : t.index = RangeIndex(Len(t.index))}

\* the metrics arguments: a list and the default tuple
SeqMetricsArgs == {ListArg(<<"mse">>), DefaultMetrics}

\* the target_var arguments of average_across_iterations: a score column,
\* the per-row mean of it
SeqTargetArgs ==
    {ListArg(<<ColumnName("mse")>>),
     ListArg(<<Suffixed(ColumnName("mse"), "_mean")>>)}

InitSeq ==
    /\ df \in SeqTables
    /\ call = [fn |-> "none", fns |-> <<>>, first |-> df, before |-> df,
               out |-> Ok(<<>>)]
    /\ ground_truth = ZeroArray(<<1>>)
    /\ predictions = ZeroArray(<<1>>)
    /\ metric = <<>>
    /\ by_feature = TRUE
    /\ ret = NoCall

\* the call of fn has ended, r its [df, out]
called(fn, r) ==
    /\ df' = r.df
    /\ call' = [fn |-> fn, fns |-> Append(call.fns, fn),
                first |-> call.first, before |-> df, out |-> r.out]
    /\ UNCHANGED <<ground_truth, predictions, metric, by_feature, ret>>

\* the outcome of a whole call of process_results_multiple_regression
proc_result(s) == [df |-> s.df, out |-> s.call.out]

Seq_append_model_scores ==
    /\ Len(call.fns) < MaxCalls
    /\ \E metrics \in SeqMetricsArgs, bf \in BOOLEAN :
          \E r \in {append_model_scores(df, metrics, bf, GtCol, PredCol,
                                        NoColNames, FALSE)} :
              called("append_model_scores", r)

Seq_average_across_iterations ==
    /\ Len(call.fns) < MaxCalls
    /\ \E target_var \in SeqTargetArgs :
          \E r \in {average_across_iterations(df, FoldCol, target_var,
                                              <<ColumnName("brain_area")>>)} :
              called("average_across_iterations", r)

\* (the table a call leaves does not depend on the state of the random
\* generator before it, which the call seeds)
Seq_process_results_multiple_regression ==
    /\ Len(call.fns) < MaxCalls
    /\ \E metrics \in SeqMetricsArgs, bf \in BOOLEAN, avg \in BOOLEAN,
          shuffle \in BOOLEAN :
          \E r \in {proc_result(process_results_multiple_regression(
                        df, metrics, bf, avg, shuffle,
                        <<ColumnName("brain_area")>>, FALSE, 0))} :
              called("process_results_multiple_regression", r)

NextSeq ==
    \/ Seq_append_model_scores
    \/ Seq_average_across_iterations
    \/ Seq_process_results_multiple_regression

SpecSeq == InitSeq /\ [][NextSeq]_vars

---------------------------------------------------------------------------
(* Properties of sequences of calls (SpecSeq) *)

SeqCalled == call.fn # "none" /\ call.fns # <<>>

\* the columns the table had before the first call
InputColumns == DOMAIN call.first.cols

\* the table t has the rows of the table s in the same order: the same row
\* labels, and in every column of s that its calls do not write the same
\* cells
SameRows(s, t) ==
    /\ t.index = s.index
    /\ \A c \in DOMAIN t.cols : Len(t.cols[c]) = Len(s.index)
    /\ \A c \in InputColumns \cap DOMAIN s.cols \cap DOMAIN t.cols :
          t.cols[c] = s.cols[c]

\* C20: after any sequence of calls of append_model_scores,
\* average_across_iterations and process_results_multiple_regression on the
\* same results table, calls that end in an error included, the table has
\* the same number of rows in the same order as initially and every column
\* that existed before a call is still present after it: the table only
\* ever gains columns.
C20_TheTableOnlyGainsColumns ==
    SeqCalled =>
        /\ SameRows(call.first, df)
        /\ SameRows(call.before, df)
        /\ DOMAIN call.first.cols \subseteq DOMAIN df.cols
        /\ DOMAIN call.before.cols \subseteq DOMAIN df.cols

C20_Witness ==
    /\ SeqCalled
    /\ call.fns = <<"process_results_multiple_regression",
                    "average_across_iterations", "append_model_scores">>
    /\ call.out.st = "raise"
    /\ Len(df.index) = 2
    /\ GtShuffledCol \in DOMAIN df.cols
    /\ Suffixed(ColumnName("mse"), "_mean") \in DOMAIN df.cols
    /\ SameRows(call.first, df)
    /\ DOMAIN call.first.cols \subseteq DOMAIN df.cols

---------------------------------------------------------------------------
(* Repeated calls of append_model_scores on one results table.  The call   *)
(* record is [fn, n, metrics, by_feature, col_names, before, out, prev]:   *)
(* n the number of calls made, prev the record of the call before.         *)

\* the metrics arguments: lists of one and of two names, a list with a
\* multi-output name first, a list with an unsupported name, a bare string
RepMetricsArgs ==
    {ListArg(<<"mse">>), ListArg(<<"mse", "balanced_accuracy">>),
     ListArg(<<"precision", "mse">>), ListArg(<<"kendall">>),
     StrArg("mse", <<"m", "s", "e">>)}

\* the metric_col_names arguments for a metrics tuple: None, a mapping of
\* every name to a new column, a mapping that lacks the last name, a
\* mapping of every name onto the column of the metric mse
RepColNamesArgs(names) ==
    {NoColNames,
     ColNames([m \in Range(names) |-> Suffixed(ColumnName(m), "_shuffled")]),
     ColNames([m \in Range(names) \ {names[Len(names)]} |->
                  Suffixed(ColumnName(m), "_shuffled")]),
     ColNames([m \in Range(names) |-> ColumnName("mse")])}

InitRep ==
    /\ df \in ProcTables
    /\ call = [fn |-> "none", n |-> 0]
    /\ ground_truth = ZeroArray(<<1>>)
    /\ predictions = ZeroArray(<<1>>)
    /\ metric = <<>>
    /\ by_feature = TRUE
    /\ ret = NoCall

Rep_append_model_scores ==
    /\ call.n < MaxAppends
    /\ \E metrics \in RepMetricsArgs, bf \in BOOLEAN :
         \E col_names \in RepColNamesArgs(metrics_tuple(metrics)) :
            \E r \in {append_model_scores(df, metrics, bf, GtCol, PredCol,
                                          col_names, FALSE)} :
                /\ df' = r.df
                /\ call' = [fn |-> "append_model_scores", n |-> call.n + 1,
                            metrics |-> metrics, by_feature |-> bf,
                            col_names |-> col_names, before |-> df,
                            out |-> r.out, prev |-> call]
    /\ UNCHANGED <<ground_truth, predictions, metric, by_feature, ret>>

NextRep == Rep_append_model_scores

SpecRep == InitRep /\ [][NextRep]_vars

---------------------------------------------------------------------------
(* Properties of repeated calls of append_model_scores (SpecRep) *)

RepCalled == call.fn = "append_model_scores"

\* the names of the columns the call is asked to write
WrittenNames ==
    {IF call.col_names.given THEN call.col_names.map[m] ELSE <<m>> :
        m \in IF call.col_names.given
              THEN Range(call.metrics.items) \cap DOMAIN call.col_names.map
              ELSE Range(call.metrics.items)}

\* the column c is in the table as it was before the call
ColumnKept(c) == c \in DOMAIN df.cols /\ df.cols[c] = call.before.cols[c]

\* nothing is returned, the rows are in their order, and nothing is added
\* but the columns the call is asked to write
OnlyColumnsAdded ==
    /\ call.out.st = "ok" => call.out.val = "None"
    /\ df.index = call.before.index
    /\ (DOMAIN df.cols \ DOMAIN call.before.cols) \subseteq WrittenNames

\* C21 (as claimed): append_model_scores returns nothing and its only
\* effect is the added metric columns: every column that existed before the
\* call has the cells it had, for every choice of metrics and output
\* column names.
C21_EveryExistingColumnIsUnchanged ==
    RepCalled =>
        /\ OnlyColumnsAdded
        /\ \A c \in DOMAIN call.before.cols : ColumnKept(c)

\* C21 (amended): append_model_scores returns nothing and its only effect
\* is on the columns it is asked to write: every column that existed before
\* the call and is not an output column of the call has the cells it had;
\* an existing column whose name is an output column is overwritten.
C21_ColumnsOtherThanTheOutputAreUnchanged ==
    RepCalled =>
        /\ OnlyColumnsAdded
        /\ \A c \in DOMAIN call.before.cols \ WrittenNames : ColumnKept(c)

C21_Witness ==
    /\ RepCalled /\ call.n = 2 /\ call.out.st = "ok"
    /\ call.prev.out.st = "ok"
    /\ call.col_names = NoColNames /\ call.prev.col_names = NoColNames
    /\ ColumnName("mse") \in WrittenNames \cap DOMAIN call.before.cols
    /\ ~ColumnKept(ColumnName("mse"))
    /\ ColumnKept(GtCol) /\ ColumnKept(PredCol)
    /\ ColumnKept(ColumnName("brain_area"))

\* the column the call c writes the metric m to
ColumnOf(c, m) ==
    IF c.col_names.given THEN c.col_names.map[m] ELSE <<m>>

\* the call and the call before it returned, with the same metrics and the
\* same by_feature
CalledTwiceAlike ==
    /\ RepCalled /\ call.n = 2
    /\ call.out.st = "ok" /\ call.prev.out.st = "ok"
    /\ call.metrics = call.prev.metrics
    /\ call.by_feature = call.prev.by_feature

\* every metric has a column of its own in each of the two calls: the
\* output column names of the two calls are all different
DifferentOutputColumns ==
    Cardinality({ColumnOf(call, m) : m \in Range(call.metrics.items)}
                \cup {ColumnOf(call.prev, m) :
                         m \in Range(call.metrics.items)})
        = 2 * Len(call.metrics.items)

\* C22: two calls of append_model_scores on the same table with the same
\* metrics, by_feature and input columns but different output column names
\* give, for every metric, two columns with the same values: the scores
\* depend on the ground-truth and predictions cells only, not on the
\* columns an earlier call added.
C22_TwoCallsGiveTheSameScores ==
    (CalledTwiceAlike /\ DifferentOutputColumns) =>
        \A m \in Range(call.metrics.items) :
            /\ ColumnOf(call, m) \in DOMAIN df.cols
            /\ ColumnOf(call.prev, m) \in DOMAIN df.cols
            /\ df.cols[ColumnOf(call, m)] = df.cols[ColumnOf(call.prev, m)]

C22_Witness ==
    /\ CalledTwiceAlike /\ DifferentOutputColumns
    /\ call.metrics = ListArg(<<"mse", "balanced_accuracy">>)
    /\ call.prev.col_names = NoColNames /\ call.col_names.given
    /\ Len(df.index) = 2
    /\ df.cols[ColumnName("mse")] # df.cols[ColumnName("balanced_accuracy")]
    /\ df.cols[ColumnName("mse")][1] # df.cols[ColumnName("mse")][2]
    /\ df.cols[Suffixed(ColumnName("mse"), "_shuffled")]
          = df.cols[ColumnName("mse")]

---------------------------------------------------------------------------
(* Properties of evaluate_metric (SpecPure) *)

\* a call of evaluate_metric has ended
EmCalled == ret.fn = "evaluate_metric"

\* the long and the short name of each metric
AliasPairs ==
    {<<"correlation", "corr">>, <<"r-squared", "r2">>,
     <<"mean-squared-error", "mse">>, <<"cosine_similarity", "cos_sim">>,
     <<"accuracy", "acc">>, <<"balanced_accuracy", "balanced_acc">>}

\* what evaluate_metric gives for the arguments of the call under the name
EvaluatedAs(name) ==
    evaluate_metric(ground_truth.data, predictions.data, name, ret.strict)

\* C23: the long and the short alias of each metric are accepted
\* identically: for all input vectors evaluate_metric with the long name
\* and with the short name either both raise or both return the same score.
C23_AliasesAreAcceptedIdentically ==
    EmCalled =>
        \A p \in AliasPairs :
            metric[1] \in {p[1], p[2]} =>
                /\ EvaluatedAs(p[1]) = ret.out
                /\ EvaluatedAs(p[2]) = ret.out

C23_Witness ==
    /\ EmCalled /\ metric = <<"mse">>
    /\ ret.out.st = "ok" /\ ret.out.val # Rat(0, 1)
    /\ Len(ground_truth.data) >= 2
    /\ EvaluatedAs("mean-squared-error") = ret.out
    /\ EvaluatedAs("balanced_accuracy") # ret.out

---------------------------------------------------------------------------
(* A table of four rows of 4 x 2 arrays is scored by feature and then      *)
(* averaged across iterations.  The call record is [fn, metrics,           *)
(* by_feature, target_var, columns_to_keep, first, before, out]: first the *)
(* table before the scoring, before the table before the last call.        *)

FourByTwo == Matrix(4, 2, <<1, 2, 3, 4, 5, 6, 7, 8>>)

\* the predictions of a row: the ground truth, or wrong in one sample of
\* the first feature
ScenarioPredictions == {FourByTwo, Matrix(4, 2, <<0, 2, 3, 4, 5, 6, 7, 8>>)}

\* the iteration column: two iterations that alternate, two iterations in
\* runs, one iteration
ScenarioFolds == {<<0, 1, 0, 1>>, <<0, 0, 1, 1>>, <<0, 0, 0, 0>>}

ScenarioTables ==
    {[index |-> RangeIndex(4),
      cols  |-> (GtCol :> [k \in 1..4 |-> FourByTwo])
                @@ (PredCol :> preds) @@ (FoldCol :> folds)] :
        preds \in [1..4 -> ScenarioPredictions], folds \in ScenarioFolds}

\* the metric under its long and its short name
ScenarioMetrics == {"mean-squared-error", "mse"}

InitScn ==
    /\ df \in ScenarioTables
    /\ call = [fn |-> "none", first |-> df]
    /\ ground_truth = ZeroArray(<<1>>)
    /\ predictions = ZeroArray(<<1>>)
    /\ metric = <<>>
    /\ by_feature = TRUE
    /\ ret = NoCall

Scn_append_model_scores ==
    /\ call.fn = "none"
    /\ \E m \in ScenarioMetrics, bf \in BOOLEAN :
          \E r \in {append_model_scores(df, ListArg(<<m>>), bf, GtCol,
                                        PredCol, NoColNames, FALSE)} :
              /\ df' = r.df
              /\ call' = [fn |-> "append_model_scores",
                          metrics |-> ListArg(<<m>>), by_feature |-> bf,
                          first |-> call.first, before |-> df,
                          out |-> r.out]
    /\ UNCHANGED <<ground_truth, predictions, metric, by_feature, ret>>

\* the averaging of the scored metric, or of the column mse
Scn_average_across_iterations ==
    /\ call.fn = "append_model_scores"
    /\ call.out.st = "ok"
    /\ \E var \in {ColumnName(call.metrics.items[1]), ColumnName("mse")},
          keep \in {<<>>, DefaultColumnsToKeep} :
          \E r \in {average_across_iterations(df, FoldCol, ListArg(<<var>>),
                                              keep)} :
              /\ df' = r.df
              /\ call' = [fn |-> "average_across_iterations",
                          metrics |-> call.metrics,
                          by_feature |-> call.by_feature,
                          target_var |-> var, columns_to_keep |-> keep,
                          first |-> call.first, before |-> df,
                          out |-> r.out]
    /\ UNCHANGED <<ground_truth, predictions, metric, by_feature, ret>>

NextScn ==
    \/ Scn_append_model_scores
    \/ Scn_average_across_iterations

SpecScn == InitScn /\ [][NextScn]_vars

---------------------------------------------------------------------------
(* Properties of the scored and averaged table (SpecScn) *)

\* the table of the scenario: predictions equal to the ground truth in
\* every row, the iteration column 0, 1, 0, 1
InScenario ==
    /\ call.first.cols[PredCol] = [k \in 1..4 |-> FourByTwo]
    /\ call.first.cols[FoldCol] = <<0, 1, 0, 1>>

\* the metric "mean-squared-error" has been scored by feature
ScenarioScored ==
    /\ call.fn = "append_model_scores" /\ InScenario
    /\ call.metrics = ListArg(<<"mean-squared-error">>) /\ call.by_feature

\* ... and then averaged, with no descriptive column to keep
ScenarioAveraged ==
    /\ call.fn = "average_across_iterations" /\ InScenario
    /\ call.metrics = ListArg(<<"mean-squared-error">>) /\ call.by_feature
    /\ call.target_var = ColumnName("mean-squared-error")
    /\ call.columns_to_keep = <<>>

\* [0.0, 0.0]
TwoZeros == Vector(<<Rat(0, 1), Rat(0, 1)>>)

\* the scored column holds [0.0, 0.0] in every row
ScoredZero ==
    /\ call.out.st = "ok"
    /\ ColumnName("mean-squared-error") \in DOMAIN df.cols
    /\ df.cols[ColumnName("mean-squared-error")] = [k \in 1..4 |-> TwoZeros]

\* the averaged table has two rows whose fields named after var hold
\* [0.0, 0.0]
AveragedZero(var) ==
    /\ call.out.st = "ok"
    /\ Len(call.out.val.index) = 2
    /\ Suffixed(var, "_avg") \in DOMAIN call.out.val.cols
    /\ Suffixed(var, "_std") \in DOMAIN call.out.val.cols
    /\ call.out.val.cols[Suffixed(var, "_avg")] = <<TwoZeros, TwoZeros>>
    /\ call.out.val.cols[Suffixed(var, "_std")] = <<TwoZeros, TwoZeros>>

\* C24 (as claimed): in the scenario, scoring "mean-squared-error" by
\* feature gives [0.0, 0.0] in every row, and averaging that metric across
\* iterations gives exactly two rows whose fields mse_avg and mse_std are
\* [0.0, 0.0].
C24_ScenarioGivesMseAvgAndMseStd ==
    /\ ScenarioScored => ScoredZero
    /\ ScenarioAveraged => AveragedZero(ColumnName("mse"))

\* C24 (amended): in the scenario, scoring "mean-squared-error" by feature
\* gives [0.0, 0.0] in every row, and averaging the column of that metric
\* gives exactly two rows whose fields mean-squared-error_avg and
\* mean-squared-error_std are [0.0, 0.0]; there is no field mse_avg, and
\* averaging the column mse raises.
C24_ScenarioGivesFieldsNamedAfterTheMetric ==
    /\ ScenarioScored => ScoredZero
    /\ ScenarioAveraged =>
          /\ AveragedZero(ColumnName("mean-squared-error"))
          /\ Suffixed(ColumnName("mse"), "_avg") \notin DOMAIN call.out.val.cols
    /\ (call.fn = "average_across_iterations" /\ InScenario
          /\ call.metrics = ListArg(<<"mean-squared-error">>)
          /\ call.target_var = ColumnName("mse")) =>
              call.out = Raise(KeyError)

C24_Witness ==
    /\ ScenarioAveraged
    /\ AveragedZero(ColumnName("mean-squared-error"))
    /\ call.before.cols[ColumnName("mean-squared-error")]
          = [k \in 1..4 |-> TwoZeros]
    /\ DOMAIN call.out.val.cols =
          {Suffixed(ColumnName("mean-squared-error"), "_avg"),
           Suffixed(ColumnName("mean-squared-error"), "_std")}

\* evaluate_metric has been called on a vector and itself
SelfEvaluated == EmCalled /\ predictions = ground_truth

\* all elements of the vector are the same (a vector of length 1 included)
IsConstant(a) == \A i, j \in DOMAIN a : a[i] = a[j]

---------------------------------------------------------------------------
(* A name given as a bare string (SpecAvg) *)

\* the outcome of the call with target_var the list of the one name
AveragedAsList(name) ==
    average_across_iterations(call.before, ColumnName("fold"),
                              ListArg(<<ColumnName(name)>>),
                              call.columns_to_keep).out

\* C26: a single name passed as a bare string is treated as the sequence
\* of that one name: average_across_iterations with target_var a string
\* averages the column of that name exactly as with target_var the list of
\* the name (and append_model_scores with metrics a string scores exactly
\* that metric).
C26_BareStringIsTheListOfTheOneName ==
    (AvgCalled /\ call.target_var.is_str) =>
        call.out = AveragedAsList(call.target_var.text)

---------------------------------------------------------------------------
(* embedder_utils: embedder_from_spec and create_image_embeddings.  The    *)
(* module is loaded by its import statements; an embedder is the record    *)
(* [class, embedding_name], an embedding the record [of] naming the        *)
(* embedder that made it.                                                  *)

ImportError == "ImportError: cannot import name 'embedder_configs'"

NotImplementedError == "NotImplementedError: Embedder not implemented."

\* the names constants.py defines
ConstantsNames ==
    {"brain_area_dict", "brain_area_abbreviations_upper",
     "brain_area_abbreviations_lower"}

\* from ..constants import embedder_configs: the value bound to the global
\* name of the module, or the error that ends the import of the module
import_embedder_configs ==
    IF "embedder_configs" \in ConstantsNames
    THEN Ok([n \in {} |-> n])
    ELSE Raise(ImportError)

\* the names the if-chain of embedder_from_spec knows
ImplementedEmbedders ==
    {"VGG16Embedder", "ResNet50Embedder", "CLIPEmbedder", "DETREmbedder",
     "DINOEmbedder", "BLIPEmbedder", "BLIP2Embedder", "ViT_B_16Embedder",
     "SGPTEmbedder"}

\* embedder_from_spec(embedder_name, embedder_configs); the embedder takes
\* its embedding_name from its spec, "ImageEmbedder" if the spec has none
embedder_from_spec(embedder_name, configs) ==
    IF embedder_name \notin ImplementedEmbedders
    THEN Raise(NotImplementedError)
    ELSE IF embedder_name \notin DOMAIN configs THEN Raise(KeyError)
    ELSE Ok([class |-> embedder_name,
             embedding_name |->
                 IF "embedding_name" \in DOMAIN configs[embedder_name]
                 THEN configs[embedder_name].embedding_name
                 ELSE "ImageEmbedder"])

RECURSIVE embed_all(_, _, _, _, _)

\* the end of pass k of the loop, e the outcome of embedder_from_spec: the
\* embedding is stored under embedder_config[name]["embedding_name"]
store_embedding(embedder_list, configs, embedder_config, k, embeddings, e) ==
    IF e.st = "raise" THEN e
    ELSE IF embedder_list[k] \notin DOMAIN embedder_config THEN Raise(KeyError)
    ELSE IF "embedding_name" \notin DOMAIN embedder_config[embedder_list[k]]
         THEN Raise(KeyError)
    ELSE embed_all(embedder_list, configs, embedder_config, k + 1,
             (embedder_config[embedder_list[k]].embedding_name :>
                  [of |-> e.val.class]) @@ embeddings)

\* the loop over embedder_list from position k on; configs is the global
\* embedder_configs of the module
embed_all(embedder_list, configs, embedder_config, k, embeddings) ==
    IF k > Len(embedder_list) THEN Ok(embeddings)
    ELSE store_embedding(embedder_list, configs, embedder_config, k,
                         embeddings,
                         embedder_from_spec(embedder_list[k], configs))

\* a call of create_image_embeddings from a program that imports it
create_image_embeddings(embedder_list, embedder_config) ==
    IF import_embedder_configs.st = "raise" THEN import_embedder_configs
    ELSE embed_all(embedder_list, import_embedder_configs.val,
                   embedder_config, 1, <<>>)

\* the embedder names of a list: two implemented names and one that is not
EmbedderNames == {"ResNet50Embedder", "CLIPEmbedder", "GPTEmbedder"}

EmbedderLists ==
    UNION {[1..n -> EmbedderNames] : n \in 0..MaxEmbedders}

\* the embedder_config arguments: every name configured with a name of its
\* own, two names configured with one embedding_name, a name not configured
EmbedderConfigs ==
    {[n \in EmbedderNames |-> [embedding_name |-> n]],
     [n \in EmbedderNames |-> [embedding_name |-> "embedding"]],
     [n \in {"ResNet50Embedder"} |-> [embedding_name |-> n]]}

InitEmb ==
    /\ call \in [fn : {"none"}, embedder_list : EmbedderLists,
                 embedder_config : EmbedderConfigs]
    /\ ret = NoCall
    /\ df = EmptyTable
    /\ ground_truth = ZeroArray(<<1>>)
    /\ predictions = ZeroArray(<<1>>)
    /\ metric = <<>>
    /\ by_feature = TRUE

Do_create_image_embeddings ==
    /\ ret.fn = "none"
    /\ ret' = [fn |-> "create_image_embeddings", strict |-> FALSE,
               out |-> create_image_embeddings(call.embedder_list,
                                               call.embedder_config)]
    /\ UNCHANGED <<ground_truth, predictions, metric, by_feature, df, call>>

NextEmb == Do_create_image_embeddings

SpecEmb == InitEmb /\ [][NextEmb]_vars

---------------------------------------------------------------------------
(* Properties of create_image_embeddings (SpecEmb) *)

CieCalled == ret.fn = "create_image_embeddings"

\* every name of the list is implemented
AllImplemented ==
    \A k \in DOMAIN call.embedder_list :
        call.embedder_list[k] \in ImplementedEmbedders

\* C27: create_image_embeddings returns one embedding per entry of the
\* embedder list: for every list of implemented embedder names the number
\* of entries of the returned dictionary is the length of the list, each
\* keyed by the configured embedding_name of its embedder; a name that is
\* not implemented makes the call fail with a not-implemented error.
C27_OneEmbeddingPerEmbedder ==
    CieCalled =>
        IF AllImplemented
        THEN /\ ret.out.st = "ok"
             /\ Cardinality(DOMAIN ret.out.val) = Len(call.embedder_list)
             /\ \A k \in DOMAIN call.embedder_list :
                   call.embedder_config[call.embedder_list[k]].embedding_name
                       \in DOMAIN ret.out.val
        ELSE ret.out = Raise(NotImplementedError)

---------------------------------------------------------------------------
(* The caller's metrics object.  A program calls                           *)
(* process_results_multiple_regression with one table and one metrics      *)
(* object, again and again; the call record is                             *)
(*   [fn, n, given, object, by_feature, avg_across_variables,              *)
(*    shuffle_ground_truth, out, prev]:                                    *)
(* given the object at the call, object the object after it, out the       *)
(* outcome, prev the record of the call before.                            *)

\* f"{metric_col_names[metric]}" for the shuffled score
ShuffledText == "balanced_accuracy_shuffled"

\* the shuffle stage of the ended call c reached its last statement
shuffle_registered(c) ==
    \E k \in DOMAIN c.ran :
        c.ran[k] = "shuffle" /\ (k < Len(c.ran) \/ c.stage # "raised")

\* the object the caller passed as metrics, after the ended call c:
\* metrics.append adds to the caller's list, the later assignment to
\* metrics binds the local name only
metrics_after(c) ==
    IF shuffle_registered(c)
    THEN [c.metrics EXCEPT !.items = Append(@, ShuffledText)]
    ELSE c.metrics

\* the tables: those with a row
ObjTables == {t \in SeqTables : t.index # <<>>}

ObjMetricsArgs ==
    {ListArg(<<"mse">>), ListArg(<<"balanced_accuracy">>), DefaultMetrics}

InitObj ==
    /\ df \in ObjTables
    /\ call \in [fn : {"none"}, n : {0}, object : ObjMetricsArgs]
    /\ ret = NoCall
    /\ ground_truth = ZeroArray(<<1>>)
    /\ predictions = ZeroArray(<<1>>)
    /\ metric = <<>>
    /\ by_feature = TRUE

\* the record of the call that ended as s
obj_called(c, bf, avg, shuffle, s) ==
    [fn |-> "process_results_multiple_regression", n |-> c.n + 1,
     given |-> c.object, object |-> metrics_after(s.call),
     by_feature |-> bf, avg_across_variables |-> avg,
     shuffle_ground_truth |-> shuffle, out |-> s.call.out, prev |-> c]

Obj_process_results_multiple_regression ==
    /\ call.n < MaxRuns
    /\ \E bf \in BOOLEAN, avg \in BOOLEAN, shuffle \in BOOLEAN :
          \E s \in {process_results_multiple_regression(df, call.object, bf,
                        avg, shuffle, <<ColumnName("brain_area")>>, FALSE,
                        0)} :
              /\ df' = s.df
              /\ call' = obj_called(call, bf, avg, shuffle, s)
    /\ UNCHANGED <<ground_truth, predictions, metric, by_feature, ret>>

NextObj == Obj_process_results_multiple_regression

SpecObj == InitObj /\ [][NextObj]_vars

---------------------------------------------------------------------------
(* Properties of the caller's metrics object (SpecObj) *)

ObjCalled == call.fn = "process_results_multiple_regression"

\* the call is the second of two calls with the same flags
SecondOfTwoAlike ==
    /\ ObjCalled
    /\ call.n = 2
    /\ call.by_feature = call.prev.by_feature
    /\ call.avg_across_variables = call.prev.avg_across_variables
    /\ call.shuffle_ground_truth = call.prev.shuffle_ground_truth

\* C28: process_results_multiple_regression does not modify the caller's
\* metrics sequence: after any call, with or without shuffle_ground_truth,
\* the sequence holds the names it held before, and the second of two
\* calls with the same object and table, made after a call that returned,
\* returns the table the first returned.
C28_MetricsObjectIsUnchanged ==
    /\ ObjCalled => call.object = call.given
    /\ (SecondOfTwoAlike /\ call.prev.out.st = "ok") => call.out = call.prev.out

---------------------------------------------------------------------------
(* A call of append_model_scores that raises (SpecRep) *)

RepRaised == RepCalled /\ call.out.st = "raise"

\* C29: append_model_scores is all-or-nothing: whenever the call raises
\* (unsupported metric, shape error on a row, a metric missing from a
\* row's score mapping or from metric_col_names) the table has exactly
\* the columns and values it had before the call.
C29_ARaisingCallWritesNothing ==
    RepRaised => df = call.before

---------------------------------------------------------------------------
(* The shuffled ground truth (SpecProc) *)

\* the shuffle stage has written its column
ShuffleWritten ==
    /\ ProcCalled
    /\ \E k \in DOMAIN call.ran : call.ran[k] = "shuffle"
    /\ GtShuffledCol \in DOMAIN df.cols

\* sample i of an array: an element of a vector, a row of a matrix
Sample(arr, i) == IF ndim(arr) = 1 THEN arr.data[i] ELSE Row(arr, i)

\* b holds the samples of a, each once, in some order
IsSamplePermutation(a, b) ==
    /\ a.shape = b.shape
    /\ \E p \in [1..a.shape[1] -> 1..a.shape[1]] :
          /\ IsInjective(p)
          /\ \A i \in 1..a.shape[1] : Sample(b, i) = Sample(a, p[i])

\* C30: the shuffle stage of process_results_multiple_regression leaves
\* the ground-truth and predictions columns unchanged and writes a
\* separate shuffled column in which every row's value is a permutation of
\* that row's ground-truth samples along the sample axis only: the same
\* shape, the same samples, the feature values of one sample together.
C30_ShuffledColumnPermutesTheSamples ==
    (ProcCalled /\ \E k \in DOMAIN call.ran : call.ran[k] = "shuffle")
        => /\ GtShuffledCol \in DOMAIN df.cols
           /\ df.cols[GtCol] = call.before.cols[GtCol]
           /\ df.cols[PredCol] = call.before.cols[PredCol]
           /\ Len(df.cols[GtShuffledCol]) = nrows(call.before)
           /\ \A k \in 1..nrows(call.before) :
                 IsSamplePermutation(call.before.cols[GtCol][k],
                                     df.cols[GtShuffledCol][k])

\* the shuffle stage ran on a table with a two-feature row whose samples
\* it put in another order
C30_Witness ==
    /\ ShuffleWritten
    /\ \E k \in 1..nrows(df) :
          /\ ndim(df.cols[GtCol][k]) = 2
          /\ df.cols[GtShuffledCol][k] # df.cols[GtCol][k]
          /\ df.cols[GtCol][k] = call.before.cols[GtCol][k]

=============================================================================
